---- MODULE Spec2Model ----
(***************************************************************************)
(* Gym-management HTTP route handlers over an external relational store.   *)
(*                                                                         *)
(* State: the three store tables (members, pricing_plans, transactions)    *)
(* and the requests in flight.  A handler runs from the arrival of its     *)
(* request to its first store call in one step, and then one step per      *)
(* store call (the call, its answer, and the handler's code up to the next *)
(* call or the response).  Text (query parameters, path segments, body     *)
(* strings) is a sequence of one-character strings, so that the regular    *)
(* expressions and parseInt are computed character by character.           *)
(***************************************************************************)
EXTENDS Integers, Sequences, FiniteSets, TLC

VARIABLES members, pricing_plans, transactions, inflight

vars == <<members, pricing_plans, transactions, inflight>>
store == <<members, pricing_plans, transactions>>

(***************************************************************************)
(* Bounds of the model.                                                    *)
(***************************************************************************)
MaxMembers == 3
MaxPlans == 3
MaxTransactions == 1

(***************************************************************************)
(* JavaScript values: undefined, null, strings, numbers (integers, NaN and *)
(* Infinity, the only non-integers the handlers can produce).              *)
(***************************************************************************)
Undefined == [t |-> "undefined"]
Null == [t |-> "null"]
NaN == [t |-> "nan"]
Infinity == [t |-> "inf"]
Str(s) == [t |-> "str", s |-> s]
Num(n) == [t |-> "num", n |-> n]
Bool(b) == [t |-> "bool", b |-> b]

\* !!v
Truthy(v) ==
    CASE v.t = "str" -> v.s # <<>>
      [] v.t = "num" -> v.n # 0
      [] v.t = "bool" -> v.b
      [] v.t = "inf" -> TRUE
      [] OTHER -> FALSE

\* a || b
Or(a, b) == IF Truthy(a) THEN a ELSE b

\* body[field]: undefined when the body has no such field
Get(body, f) == IF f \in DOMAIN body THEN body[f] ELSE Undefined

\* delete body.id
DeleteId_Keep(body) == body
DeleteId(body) == [f \in (DOMAIN body) \ {"id"} |-> body[f]]

\* a text the handler writes itself, as opposed to one the client sent
Lit(x) == [t |-> "lit", v |-> x]

\* new Date().toISOString() at the time of the request
Now == Lit("now")

\* { ...updateData, updated_at: new Date().toISOString() }
WithUpdatedAt(updateData) ==
    [f \in DOMAIN updateData \cup {"updated_at"} |->
        IF f = "updated_at" THEN Now ELSE updateData[f]]

(***************************************************************************)
(* Characters and text.                                                    *)
(***************************************************************************)
Digits == <<"0", "1", "2", "3", "4", "5", "6", "7", "8", "9">>
IsDigit(c) == \E i \in 1..10 : Digits[i] = c
DigitVal(c) == (CHOOSE i \in 1..10 : Digits[i] = c) - 1
IsSpace(c) == c \in {" ", "\t", "\n", "\r"}
LowerHex == {"0", "1", "2", "3", "4", "5", "6", "7", "8", "9",
             "a", "b", "c", "d", "e", "f"}
UpperHex == {"A", "B", "C", "D", "E", "F"}
IsHex(c) == c \in LowerHex \cup UpperHex
ToLower(c) ==
    CASE c = "A" -> "a" [] c = "B" -> "b" [] c = "C" -> "c"
      [] c = "D" -> "d" [] c = "E" -> "e" [] c = "F" -> "f"
      [] OTHER -> c

RECURSIVE Rep(_, _)
Rep(c, n) == IF n = 0 THEN <<>> ELSE <<c>> \o Rep(c, n - 1)

RECURSIVE SkipSpace(_)
SkipSpace(s) == IF s # <<>> /\ IsSpace(Head(s)) THEN SkipSpace(Tail(s)) ELSE s

RECURSIVE LeadingDigits(_)
LeadingDigits(s) ==
    IF s # <<>> /\ IsDigit(Head(s)) THEN <<Head(s)>> \o LeadingDigits(Tail(s))
    ELSE <<>>

RECURSIVE DecimalValue(_, _)
DecimalValue(s, acc) ==
    IF s = <<>> THEN acc ELSE DecimalValue(Tail(s), 10 * acc + DigitVal(Head(s)))

\* parseInt(v) of a string: leading whitespace, an optional sign, then the
\* longest run of decimal digits; NaN when there is none.
ParseInt(v) ==
    LET t == SkipSpace(v.s)
        neg == t # <<>> /\ Head(t) = "-"
        u == IF t # <<>> /\ Head(t) \in {"+", "-"} THEN Tail(t) ELSE t
        d == LeadingDigits(u)
    IN  IF d = <<>> THEN NaN
        ELSE Num(IF neg THEN 0 - DecimalValue(d, 0) ELSE DecimalValue(d, 0))

\* text.startsWith(prefix)
IsPrefix(p, t) == Len(t) >= Len(p) /\ SubSeq(t, 1, Len(p)) = p

\* the day a text YYYY-MM-DD names, as one number
DateNum(text) ==
    DecimalValue(SubSeq(text, 1, 4), 0) * 10000
        + DecimalValue(SubSeq(text, 6, 7), 0) * 100
        + DecimalValue(SubSeq(text, 9, 10), 0)

(***************************************************************************)
(* JavaScript arithmetic on the values above.                              *)
(***************************************************************************)
\* a - b, a * b, a + b on numbers (NaN is contagious)
JsSub(a, b) == IF a.t = "num" /\ b.t = "num" THEN Num(a.n - b.n) ELSE NaN
JsMul(a, b) == IF a.t = "num" /\ b.t = "num" THEN Num(a.n * b.n) ELSE NaN
JsAdd(a, b) == IF a.t = "num" /\ b.t = "num" THEN Num(a.n + b.n) ELSE NaN

\* a < b
JsLt(a, b) ==
    CASE a.t = "num" /\ b.t = "num" -> a.n < b.n
      [] a.t = "num" /\ b.t = "inf" -> TRUE
      [] OTHER -> FALSE

\* Math.ceil(a / b) for integers a >= 0 and b, and for b NaN
JsCeilDiv(a, b) ==
    CASE b.t # "num" -> NaN
      [] b.n = 0 -> IF a.n = 0 THEN NaN ELSE Infinity
      [] b.n > 0 -> Num(0 - ((0 - a.n) \div b.n))
      [] OTHER -> Num(0 - (a.n \div (0 - b.n)))

(***************************************************************************)
(* The format checks of the handlers.                                      *)
(***************************************************************************)
\* /^[0-9a-f]{8}-[0-9a-f]{4}-[0-9a-f]{4}-[0-9a-f]{4}-[0-9a-f]{12}$/i.test(s)
IsUUID(s) ==
    /\ Len(s) = 36
    /\ \A k \in 1..36 : IF k \in {9, 14, 19, 24} THEN s[k] = "-" ELSE IsHex(s[k])

\* [^\s@]
EmailChar(c) == ~IsSpace(c) /\ c # "@"

\* /^[^\s@]+@[^\s@]+\.[^\s@]+$/.test(s): an "@" at i, a "." at j, a non-empty
\* run of EmailChar before i, between i and j, and after j.
emailRegexTest(s) ==
    \E i \in 1..Len(s), j \in 1..Len(s) :
        /\ s[i] = "@" /\ s[j] = "."
        /\ 1 < i /\ i + 1 < j /\ j < Len(s)
        /\ \A k \in 1..Len(s) : k \notin {i, j} => EmailChar(s[k])

\* [\d\s\-\(\)]
PhoneChar(c) == IsDigit(c) \/ IsSpace(c) \/ c \in {"-", "(", ")"}

\* /^\+?[\d\s\-\(\)]{7,15}$/.test(s)
phoneRegexTest_Loose(s) == s # <<>>
phoneRegexTest(s) ==
    LET rest == IF s # <<>> /\ Head(s) = "+" THEN Tail(s) ELSE s
    IN  /\ Len(rest) >= 7 /\ Len(rest) <= 15
        /\ \A k \in 1..Len(rest) : PhoneChar(rest[k])

(***************************************************************************)
(* Record identifiers.  A uuid is identified by one hexadecimal digit d    *)
(* and stands for dddddddd-dddd-dddd-dddd-dddddddddddd; every other uuid   *)
(* is "other" and names no record.                                         *)
(***************************************************************************)
NoId == "none"
OtherId == "other"
InvalidId == "invalid"

\* the canonical text of a uuid
UuidText(d) ==
    Rep(d, 8) \o <<"-">> \o Rep(d, 4) \o <<"-">> \o Rep(d, 4) \o <<"-">>
        \o Rep(d, 4) \o <<"-">> \o Rep(d, 12)

\* The store's reading of a text as a uuid: canonical or unhyphenated,
\* upper or lower case.
ParseUuid(s) ==
    LET hex == SelectSeq(s, LAMBDA c : c # "-")
    IN  IF ~(IsUUID(s) \/ (Len(s) = 32 /\ \A k \in 1..32 : IsHex(s[k])))
        THEN InvalidId
        ELSE IF \A k \in 1..32 : ToLower(hex[k]) = ToLower(hex[1])
        THEN ToLower(hex[1])
        ELSE OtherId

MemberIdPool == <<"1", "2", "3", "4">>
PlanIdPool == <<"a", "b", "c", "d">>
TransactionIdPool == <<"7", "8", "9">>

MemberIds == {MemberIdPool[i] : i \in 1..MaxMembers}
PlanIds == {PlanIdPool[i] : i \in 1..MaxPlans}
TransactionIds == {TransactionIdPool[i] : i \in 1..MaxTransactions}

(***************************************************************************)
(* The external store: three tables of rows.  A row is a function from the *)
(* table's columns to values: the id and the foreign keys are uuids (or    *)
(* NoId for SQL NULL), every other column holds a JavaScript value.        *)
(***************************************************************************)
Tables == {"members", "pricing_plans", "transactions"}

Cols(tbl) ==
    CASE tbl = "members" ->
            {"id", "first_name", "last_name", "phone", "email",
             "subscription_plan_id", "subscription_expiry_date"}
      [] tbl = "pricing_plans" ->
            {"id", "name", "price", "duration_days", "is_active"}
      [] tbl = "transactions" ->
            {"id", "member_id", "plan_id", "amount", "payment_method",
             "transaction_date", "status"}

\* foreign keys: the table each uuid column refers to
FkCols(tbl) ==
    CASE tbl = "members" -> {"subscription_plan_id"}
      [] tbl = "pricing_plans" -> {}
      [] tbl = "transactions" -> {"member_id", "plan_id"}

FkTarget(c) == IF c = "member_id" THEN "members" ELSE "pricing_plans"

\* columns under a uniqueness constraint
UniqueCols(tbl) ==
    CASE tbl = "members" -> {"email", "phone"}
      [] tbl = "pricing_plans" -> {"name"}
      [] tbl = "transactions" -> {}

\* columns that may not be NULL
NotNullCols(tbl) ==
    CASE tbl = "members" -> {"first_name", "last_name", "phone", "email"}
      [] tbl = "pricing_plans" -> {"name", "price", "duration_days"}
      [] tbl = "transactions" ->
            {"member_id", "amount", "payment_method", "transaction_date", "status"}

Table(tbl) ==
    CASE tbl = "members" -> members
      [] tbl = "pricing_plans" -> pricing_plans
      [] tbl = "transactions" -> transactions

\* the rows of a table; the table itself lists them in order of creation
RowsOf(t) == {t[i] : i \in DOMAIN t}
Rows(tbl) == RowsOf(Table(tbl))

\* the value a column takes from a JSON value
Conv(tbl, c, v) ==
    IF c \in FkCols(tbl) \cup {"id"}
    THEN IF v.t = "str" THEN ParseUuid(v.s) ELSE NoId
    ELSE IF v.t = "undefined" THEN Null ELSE v

IsNullValue(tbl, c, x) == IF c \in FkCols(tbl) \cup {"id"} THEN x = NoId ELSE x = Null

\* the first violated constraint of a candidate row, or "ok"; `others` are
\* the rows it will share the table with
Violation(tbl, row, others) ==
    IF \E c \in FkCols(tbl) : row[c] = InvalidId THEN "22P02"
    ELSE IF \E c \in NotNullCols(tbl) : IsNullValue(tbl, c, row[c]) THEN "23502"
    ELSE IF \E c \in UniqueCols(tbl) : \E o \in others : o[c] = row[c] THEN "23505"
    ELSE IF \E c \in FkCols(tbl) :
                /\ row[c] # NoId
                /\ \A t \in Rows(FkTarget(c)) : t.id # row[c]
    THEN "23503"
    ELSE "ok"

\* rows of any table that refer to record `id` of table `tbl`
Referrers(tbl, id) ==
    {r \in RowsOf(members) : tbl = "pricing_plans" /\ r.subscription_plan_id = id}
        \cup {r \in RowsOf(transactions) : tbl = "pricing_plans" /\ r.plan_id = id}
        \cup {r \in RowsOf(transactions) : tbl = "members" /\ r.member_id = id}

IdPoolSeq(tbl) ==
    CASE tbl = "members" -> MemberIdPool
      [] tbl = "pricing_plans" -> PlanIdPool
      [] tbl = "transactions" -> TransactionIdPool

MaxRows(tbl) ==
    CASE tbl = "members" -> MaxMembers
      [] tbl = "pricing_plans" -> MaxPlans
      [] tbl = "transactions" -> MaxTransactions

\* the id the store gives a new row: the first of the pool not in use
FreshId(tbl) ==
    LET free(i) == \A r \in Rows(tbl) : r.id # IdPoolSeq(tbl)[i]
        i == CHOOSE i \in 1..MaxRows(tbl) : free(i) /\ \A j \in 1..(i - 1) : ~free(j)
    IN  IdPoolSeq(tbl)[i]

NoRow == [id |-> NoId]

\* What a call answers: a code ("ok", a store error code, or "ERR" for any
\* unanticipated failure), the row returned, the rows returned (in order),
\* the count of the matching rows, and the table afterwards.
Answer(code, row, rows, count, table) ==
    [code |-> code, row |-> row, rows |-> rows, count |-> count, table |-> table]

Failed(code, tbl) == Answer(code, NoRow, <<>>, Null, Table(tbl))

\* .from(tbl).select(..).eq('id', text).single()
StoreSelectSingle(tbl, text, fault) ==
    LET id == ParseUuid(text)
        hit == SelectSeq(Table(tbl), LAMBDA r : r.id = id)
    IN  IF fault THEN Failed("ERR", tbl)
        ELSE IF id = InvalidId THEN Failed("22P02", tbl)
        ELSE IF hit = <<>> THEN Failed("PGRST116", tbl)
        ELSE Answer("ok", hit[1], hit, Null, Table(tbl))

\* .from(tbl).insert([body]).select().single()
StoreInsert(tbl, body, fault) ==
    LET row == [c \in Cols(tbl) |->
                    IF c = "id" THEN FreshId(tbl) ELSE Conv(tbl, c, Get(body, c))]
        v == Violation(tbl, row, Rows(tbl))
    IN  IF fault THEN Failed("ERR", tbl)
        ELSE IF \E f \in DOMAIN body : f \notin Cols(tbl) THEN Failed("PGRST204", tbl)
        ELSE IF v # "ok" THEN Failed(v, tbl)
        ELSE Answer("ok", row, <<row>>, Null, Append(Table(tbl), row))

\* .from(tbl).update(patch).eq('id', text).select().single()
StoreUpdate(tbl, text, patch, fault) ==
    LET id == ParseUuid(text)
        at == {i \in DOMAIN Table(tbl) : Table(tbl)[i].id = id}
        i == CHOOSE i \in at : TRUE
        old == Table(tbl)[i]
        new == [c \in Cols(tbl) |->
                    IF c \in DOMAIN patch THEN Conv(tbl, c, patch[c]) ELSE old[c]]
        v == Violation(tbl, new, Rows(tbl) \ {old})
    IN  IF fault THEN Failed("ERR", tbl)
        ELSE IF id = InvalidId THEN Failed("22P02", tbl)
        ELSE IF \E f \in DOMAIN patch : f \notin Cols(tbl) \cup {"updated_at"}
        THEN Failed("PGRST204", tbl)
        ELSE IF at = {} THEN Failed("PGRST116", tbl)
        ELSE IF v # "ok" THEN Failed(v, tbl)
        ELSE Answer("ok", new, <<new>>, Null, [Table(tbl) EXCEPT ![i] = new])

\* .from(tbl).delete().eq('id', text)
StoreDelete(tbl, text, fault) ==
    LET id == ParseUuid(text)
        hit == SelectSeq(Table(tbl), LAMBDA r : r.id = id)
    IN  IF fault THEN Failed("ERR", tbl)
        ELSE IF id = InvalidId THEN Failed("22P02", tbl)
        ELSE IF hit # <<>> /\ Referrers(tbl, id) # {} THEN Failed("23503", tbl)
        ELSE Answer("ok", NoRow, <<>>, Null,
                    SelectSeq(Table(tbl), LAMBDA r : r.id # id))

\* A filter of a list query: .eq(col, value)
Eq(col, v) == [col |-> col, op |-> "eq", val |-> v]

\* .gte(col, value), .lte(col, value), .lt(col, value) on a date column,
\* .is(col, null), .not(col, 'is', null)
Gte(col, v) == [col |-> col, op |-> "gte", val |-> v]
Lte(col, v) == [col |-> col, op |-> "lte", val |-> v]
Lt(col, v) == [col |-> col, op |-> "lt", val |-> v]
IsNull(col) == [col |-> col, op |-> "is_null", val |-> Null]
NotNull(col) == [col |-> col, op |-> "not_null", val |-> Null]

FilterInvalid(tbl, f) ==
    f.op = "eq" /\ f.col \in FkCols(tbl) \cup {"id"} /\ ParseUuid(f.val.s) = InvalidId

\* a comparison with a null column is never true
Matches(tbl, r, f) ==
    CASE f.op = "eq" ->
            IF f.col \in FkCols(tbl) \cup {"id"} THEN r[f.col] = ParseUuid(f.val.s)
            ELSE r[f.col] = f.val
      [] f.op = "gte" -> r[f.col] # Null /\ DateNum(r[f.col].s) >= DateNum(f.val.s)
      [] f.op = "lte" -> r[f.col] # Null /\ DateNum(r[f.col].s) <= DateNum(f.val.s)
      [] f.op = "lt" -> r[f.col] # Null /\ DateNum(r[f.col].s) < DateNum(f.val.s)
      [] f.op = "is_null" -> IsNullValue(tbl, f.col, r[f.col])
      [] f.op = "not_null" -> ~IsNullValue(tbl, f.col, r[f.col])

\* the position of a row in its table: the order of created_at
Pos(tbl, r) == CHOOSE i \in DOMAIN Table(tbl) : Table(tbl)[i] = r

\* r1 may precede r2 under .order(sort, {ascending: asc})
MayPrecede(tbl, sort, asc, r1, r2) ==
    LET le == IF sort = "created_at" THEN Pos(tbl, r1) <= Pos(tbl, r2)
              ELSE r1[sort].n <= r2[sort].n
        ge == IF sort = "created_at" THEN Pos(tbl, r1) >= Pos(tbl, r2)
              ELSE r1[sort].n >= r2[sort].n
    IN  IF asc THEN le ELSE ge

\* the orders in which the store may return a set of rows
Orderings(tbl, rows, sort, asc) ==
    {q \in [1..Cardinality(rows) -> rows] :
        /\ \A i, j \in DOMAIN q : i # j => q[i] # q[j]
        /\ \A i \in DOMAIN q : i > 1 => MayPrecede(tbl, sort, asc, q[i - 1], q[i])}

Min(a, b) == IF a < b THEN a ELSE b

\* .from(tbl).select(.., {count: 'exact'}) with filters, .order(sort, ..) and
\* .range(from, to): offset = from and limit = to - from + 1.  The answers the
\* store may give, one for each order the sort leaves open; a limit of 0 is
\* answered with no rows and the count, or refused, as the store's version has it.
StoreList(tbl, filters, sort, asc, from, to, fault) ==
    LET hit == {r \in Rows(tbl) : \A f \in filters : Matches(tbl, r, f)}
        n == Cardinality(hit)
        lim == JsAdd(JsSub(to, from), Num(1))
    IN  IF fault THEN {Failed("ERR", tbl)}
        ELSE IF \E f \in filters : FilterInvalid(tbl, f) THEN {Failed("22P02", tbl)}
        ELSE IF from.t # "num" \/ lim.t # "num" THEN {Failed("PGRST100", tbl)}
        ELSE IF from.n < 0 \/ lim.n < 0 THEN {Failed("2201W", tbl)}
        ELSE IF from.n > n THEN {Failed("PGRST103", tbl)}
        ELSE {Answer("ok", NoRow, SubSeq(q, from.n + 1, Min(from.n + lim.n, n)),
                     Num(n), Table(tbl)) : q \in Orderings(tbl, hit, sort, asc)}
             \cup (IF lim.n = 0 THEN {Failed("PGRST103", tbl)} ELSE {})

\* .from(tbl).select('*', {count: 'exact', head: true}) with filters: the
\* count, or null when the call fails
StoreCount(tbl, filters, fault) ==
    IF fault THEN Null
    ELSE Num(Cardinality({r \in Rows(tbl) : \A f \in filters : Matches(tbl, r, f)}))

(***************************************************************************)
(* Requests, responses and the requests in flight.                         *)
(***************************************************************************)
Slots == {1, 2}

\* searchParams.get(name): null when the parameter is absent
QGet(q, name) == IF name \in DOMAIN q THEN q[name] ELSE Null

NoBody == [f \in {} |-> Null]
BadJson == [malformed |-> Null]
NoAuth == [present |-> FALSE]

Request(ep, method, query, auth, id, body) ==
    [ep |-> ep, method |-> method, query |-> query, auth |-> auth, id |-> id,
     body |-> body]

NoReq == [ep |-> "none"]
NoResp == [status |-> 0, body |-> <<>>]

\* NextResponse.json({ error: message }, { status })
errorResponse(message, status) == [status |-> status, body |-> [error |-> message]]

\* NextResponse.json({ data }, { status })
successResponse_BadRequest(data, status) == [status |-> 400, body |-> [data |-> data]]
successResponse(data, status) == [status |-> status, body |-> [data |-> data]]

\* new NextResponse(null, { status: 204 })
emptyResponse == [status |-> 204, body |-> <<>>]

\* What a request has done so far, in order.
AuthEv(ok) == [k |-> "auth", ok |-> ok]
CheckEv(what, ok) == [k |-> "check", what |-> what, ok |-> ok]
StoreEv(tbl, op, code) == [k |-> "store", tbl |-> tbl, op |-> op, code |-> code]
LogEv == [k |-> "log"]

\* A slot holds one request at a time: where its handler stands (pc), what it
\* has done (trace), what it keeps for its next step (loc), its response, and
\* the slots that made a store call of their current request while this
\* request was under way (seen).
Idle ==
    [pc |-> "idle", req |-> NoReq, trace |-> <<>>, resp |-> NoResp, loc |-> Null,
     seen |-> {}]
Off ==
    [pc |-> "off", req |-> NoReq, trace |-> <<>>, resp |-> NoResp, loc |-> Null,
     seen |-> {}]

UnderWay(s) == inflight[s].pc \notin {"idle", "done", "off"}

StoreCalls(tr) == Cardinality({i \in DOMAIN tr : tr[i].k = "store"})

\* slot s moves on to `new`; a store call it made is seen by the requests
\* under way
Step(s, new) ==
    inflight' = [t \in Slots |->
        IF t = s THEN new
        ELSE IF UnderWay(t) /\ StoreCalls(new.trace) > StoreCalls(inflight[s].trace)
        THEN [inflight[t] EXCEPT !.seen = @ \cup {s}]
        ELSE inflight[t]]

Free(s) == inflight[s].pc = "idle"

\* the handler returns
Done(s, rq, tr, resp) ==
    Step(s, [pc |-> "done", req |-> rq, trace |-> tr, resp |-> resp, loc |-> Null,
             seen |-> inflight[s].seen])

\* the handler awaits its next store call
Wait(s, rq, tr, pc, loc) ==
    Step(s, [pc |-> pc, req |-> rq, trace |-> tr, resp |-> NoResp, loc |-> loc,
             seen |-> inflight[s].seen])

\* the returned response goes out and the request is over
Reply_KeepsRequest(s) ==
    /\ inflight[s].pc = "done"
    /\ inflight' = [t \in Slots |->
           IF t = s THEN [inflight[s] EXCEPT !.pc = "idle"]
           ELSE [inflight[t] EXCEPT !.seen = @ \ {s}]]
    /\ UNCHANGED store
Reply(s) ==
    /\ inflight[s].pc = "done"
    /\ inflight' = [t \in Slots |->
           IF t = s THEN Idle ELSE [inflight[t] EXCEPT !.seen = @ \ {s}]]
    /\ UNCHANGED store

\* the outer catch of every handler: console.error, then 500
Caught(s, rq, tr) ==
    Done(s, rq, tr \o <<LogEv>>, errorResponse("Internal server error", 500))

\* room for one more row, counting the inserts already on their way
HasRoom(tbl, pcs) ==
    Len(Table(tbl)) + Cardinality({s \in Slots : inflight[s].pc \in pcs}) < MaxRows(tbl)

(***************************************************************************)
(* Configuration and the texts the requests are built from.                *)
(***************************************************************************)
ADMIN_API_KEY == Str(<<"k", "1">>)

\* apiKey === process.env.ADMIN_API_KEY
validateApiKey_Prefix(request) ==
    LET k == QGet(request.query, "api_key")
    IN  k.t = "str" /\ k.s # <<>> /\ k.s = SubSeq(ADMIN_API_KEY.s, 1, Len(k.s))
validateApiKey(request) == QGet(request.query, "api_key") = ADMIN_API_KEY

ApiKeys == {Null, ADMIN_API_KEY, Str(<<"k">>), Str(<<"K", "1">>)}
BadApiKeys == ApiKeys \ {ADMIN_API_KEY}

EmailA == <<"a", "@", "x", ".", "i", "o">>
EmailB == <<"b", "@", "x", ".", "i", "o">>
EmailBad == <<"a", "@", "x">>
PhoneIntl == <<"+", "1", " ", "5", "5", "5", "-", "1", "2", "3", "-", "4", "5", "6", "7">>
PhoneLocal == <<"5", "5", "5", "0", "1", "0", "0">>
PhoneAbc == <<"a", "b", "c">>
NameAl == <<"A", "l">>
NameLee == <<"L", "e", "e">>
SegMembers == <<"m", "e", "m", "b", "e", "r", "s">>
SegAbc == <<"a", "b", "c">>
SegStats == <<"s", "t", "a", "t", "s">>

DateJan1 == <<"2", "0", "2", "5", "-", "0", "1", "-", "0", "1">>
DateFeb1 == <<"2", "0", "2", "5", "-", "0", "2", "-", "0", "1">>
DateMar1 == <<"2", "0", "2", "5", "-", "0", "3", "-", "0", "1">>

\* new Date().toISOString().split('T')[0]
Today == DateFeb1

\* a JSON body: the fields given, less those whose value is undefined
Json(rec) == [f \in {g \in DOMAIN rec : rec[g] # Undefined} |-> rec[f]]

(***************************************************************************)
(* The pagination summary of the three list handlers.                     *)
(***************************************************************************)
\* parseInt(searchParams.get(name) || dflt)
IntParam(q, name, dflt) == ParseInt(Or(QGet(q, name), Str(dflt)))

\* offset = (page - 1) * limit
Offset(page, limit) == JsMul(JsSub(page, Num(1)), limit)

\* Math.ceil((count || 0) / limit)
TotalPages_Floor(count, limit) ==
    IF limit.t = "num" /\ limit.n > 0 THEN Num(Or(count, Num(0)).n \div limit.n)
    ELSE JsCeilDiv(Or(count, Num(0)), limit)
TotalPages(count, limit) == JsCeilDiv(Or(count, Num(0)), limit)

\* the pagination object of the response
Pagination(page, limit, count) ==
    [page |-> page, limit |-> limit, total |-> count,
     totalPages |-> TotalPages(count, limit),
     hasNext |-> JsLt(page, TotalPages(count, limit)),
     hasPrev |-> JsLt(Num(1), page)]

\* NextResponse.json({ data, pagination })
listResponse(rows, page, limit, count) ==
    [status |-> 200,
     body |-> [data |-> rows, pagination |-> Pagination(page, limit, count)]]

(***************************************************************************)
(* /api/members: GET (one member or the list), POST, PUT, DELETE.          *)
(***************************************************************************)
MemberPlanFilter(q) ==
    IF Truthy(QGet(q, "subscription_plan_id"))
    THEN {Eq("subscription_plan_id", QGet(q, "subscription_plan_id"))}
    ELSE {}

\* active_only === 'true': .gte('subscription_expiry_date', today)
ActiveOnlyFilter_Truthy(q) ==
    IF Truthy(QGet(q, "active_only")) THEN {Gte("subscription_expiry_date", Str(Today))}
    ELSE {}
ActiveOnlyFilter(q) ==
    IF QGet(q, "active_only") = Str(<<"t", "r", "u", "e">>)
    THEN {Gte("subscription_expiry_date", Str(Today))}
    ELSE {}

MemberFilters(q) == MemberPlanFilter(q) \cup ActiveOnlyFilter(q)

\* the four counts of /stats
StatsNames == {"totalMembers", "activeSubscriptions", "expiredSubscriptions", "noSubscription"}

StatsFilters(name) ==
    CASE name = "totalMembers" -> {}
      [] name = "activeSubscriptions" -> {Gte("subscription_expiry_date", Str(Today))}
      [] name = "expiredSubscriptions" ->
            {Lt("subscription_expiry_date", Str(Today)), NotNull("subscription_expiry_date")}
      [] name = "noSubscription" -> {IsNull("subscription_plan_id")}

\* GET up to its store call: the key, then the choice between one member
\* (the last path segment is a uuid) and the list
members_GET(s, rq) ==
    /\ Free(s) /\ rq.ep = "members.GET"
    /\ UNCHANGED store
    /\ IF ~validateApiKey(rq)
       THEN Done(s, rq, <<AuthEv(FALSE)>>,
                 errorResponse("Invalid or missing API key", 401))
       ELSE IF IsUUID(rq.id) /\ rq.id # SegMembers
       THEN Wait(s, rq, <<AuthEv(TRUE)>>, "members.GET.single", Null)
       ELSE IF IsPrefix(SegStats, rq.id)
       THEN Wait(s, rq, <<AuthEv(TRUE)>>, "members.GET.stats", [n \in {} |-> Null])
       ELSE Wait(s, rq, <<AuthEv(TRUE)>>, "members.GET.list", Null)

\* one of the four count queries of Promise.all reaches the store, in any
\* order; with the last of them the response: each count, or 0 for none
members_GET_stats(s) ==
    /\ inflight[s].pc = "members.GET.stats"
    /\ UNCHANGED store
    /\ \E name \in StatsNames \ DOMAIN inflight[s].loc : \E fault \in BOOLEAN :
        LET rq == inflight[s].req
            count == StoreCount("members", StatsFilters(name), fault)
            counts == [n \in DOMAIN inflight[s].loc \cup {name} |->
                          IF n = name THEN count ELSE inflight[s].loc[n]]
            tr == inflight[s].trace
                      \o <<StoreEv("members", "count", IF fault THEN "ERR" ELSE "ok")>>
        IN  IF DOMAIN counts = StatsNames
            THEN Done(s, rq, tr,
                      successResponse([n \in StatsNames |-> Or(counts[n], Num(0))], 200))
            ELSE Wait(s, rq, tr, "members.GET.stats", counts)

\* .from('members').select('*').eq('id', memberId).single() and the response
members_GET_single(s) ==
    /\ inflight[s].pc = "members.GET.single"
    /\ UNCHANGED store
    /\ \E fault \in BOOLEAN :
        LET rq == inflight[s].req
            a == StoreSelectSingle("members", rq.id, fault)
            tr == inflight[s].trace \o <<StoreEv("members", "select", a.code)>>
        IN  IF a.code = "PGRST116"
            THEN Done(s, rq, tr, errorResponse("Member not found", 404))
            ELSE IF a.code # "ok"
            THEN Done(s, rq, tr \o <<LogEv>>, errorResponse("Failed to fetch member", 500))
            ELSE Done(s, rq, tr, successResponse(a.row, 200))

\* the answers the store may give to the list query of a query string: the
\* filters, .order('created_at', {ascending: false}), .range(offset, offset + limit - 1)
members_GET_query(q, fault) ==
    LET page == IntParam(q, "page", <<"1">>)
        limit == IntParam(q, "limit", <<"1", "0">>)
        offset == Offset(page, limit)
    IN  StoreList("members", MemberFilters(q), "created_at", FALSE,
                  offset, JsSub(JsAdd(offset, limit), Num(1)), fault)

\* the list query and the response with its pagination summary
members_GET_list(s) ==
    /\ inflight[s].pc = "members.GET.list"
    /\ UNCHANGED store
    /\ \E fault \in BOOLEAN :
        LET rq == inflight[s].req
            page == IntParam(rq.query, "page", <<"1">>)
            limit == IntParam(rq.query, "limit", <<"1", "0">>)
        IN  \E a \in members_GET_query(rq.query, fault) :
                LET tr == inflight[s].trace \o <<StoreEv("members", "select", a.code)>>
                IN  IF a.code # "ok"
                    THEN Done(s, rq, tr \o <<LogEv>>,
                              errorResponse("Failed to fetch members", 500))
                    ELSE Done(s, rq, tr, listResponse(a.rows, page, limit, a.count))

MemberRequired == <<"first_name", "last_name", "phone", "email">>

\* requiredFields.filter(field => !body[field])
MissingFields(required, body) == SelectSeq(required, LAMBDA f : ~Truthy(Get(body, f)))

missingResponse(missing) ==
    [status |-> 400, body |-> [error |-> "Missing required fields", missing |-> missing]]

\* POST up to its store call: the key, the body, the required fields, the
\* email format, the phone format
members_POST(s, rq) ==
    /\ Free(s) /\ rq.ep = "members.POST"
    /\ HasRoom("members", {"members.POST.insert"})
    /\ UNCHANGED store
    /\ IF ~validateApiKey(rq)
       THEN Done(s, rq, <<AuthEv(FALSE)>>,
                 errorResponse("Invalid or missing API key", 401))
       ELSE IF rq.body = BadJson
       THEN Caught(s, rq, <<AuthEv(TRUE)>>)
       ELSE IF MissingFields(MemberRequired, rq.body) # <<>>
       THEN Done(s, rq, <<AuthEv(TRUE), CheckEv("required", FALSE)>>,
                 missingResponse(MissingFields(MemberRequired, rq.body)))
       ELSE IF ~emailRegexTest(rq.body.email.s)
       THEN Done(s, rq, <<AuthEv(TRUE), CheckEv("required", TRUE), CheckEv("email", FALSE)>>,
                 errorResponse("Invalid email format", 400))
       ELSE IF ~phoneRegexTest(rq.body.phone.s)
       THEN Done(s, rq, <<AuthEv(TRUE), CheckEv("required", TRUE), CheckEv("email", TRUE),
                          CheckEv("phone", FALSE)>>,
                 errorResponse("Invalid phone format", 400))
       ELSE Wait(s, rq, <<AuthEv(TRUE), CheckEv("required", TRUE), CheckEv("email", TRUE),
                          CheckEv("phone", TRUE)>>,
                 "members.POST.insert", Null)

\* the status of a failed member insert
members_POST_error_AllGeneric(code) ==
    errorResponse("Failed to create member", 500)
members_POST_error(code) ==
    IF code = "23505"
    THEN errorResponse("Member with this email or phone already exists", 409)
    ELSE errorResponse("Failed to create member", 500)

\* .from('members').insert([memberData]).select().single() and the response
members_POST_insert(s) ==
    /\ inflight[s].pc = "members.POST.insert"
    /\ UNCHANGED <<pricing_plans, transactions>>
    /\ \E fault \in BOOLEAN :
        LET rq == inflight[s].req
            a == StoreInsert("members", rq.body, fault)
            tr == inflight[s].trace \o <<StoreEv("members", "insert", a.code)>>
        IN  /\ members' = a.table
            /\ IF a.code = "23505" THEN Done(s, rq, tr, members_POST_error(a.code))
               ELSE IF a.code # "ok"
               THEN Done(s, rq, tr \o <<LogEv>>, members_POST_error(a.code))
               ELSE Done(s, rq, tr, successResponse(a.row, 201))

\* PUT up to its store call: the key, the id, the body without its id, the
\* email format and the phone format when given
members_PUT(s, rq) ==
    /\ Free(s) /\ rq.ep = "members.PUT"
    /\ UNCHANGED store
    /\ IF ~validateApiKey(rq)
       THEN Done(s, rq, <<AuthEv(FALSE)>>,
                 errorResponse("Invalid or missing API key", 401))
       ELSE IF rq.id = <<>> \/ rq.id = SegMembers
       THEN Done(s, rq, <<AuthEv(TRUE), CheckEv("id", FALSE)>>,
                 errorResponse("Member ID is required", 400))
       ELSE IF rq.body = BadJson
       THEN Caught(s, rq, <<AuthEv(TRUE), CheckEv("id", TRUE)>>)
       ELSE LET updateData == DeleteId(rq.body)
                t1 == <<AuthEv(TRUE), CheckEv("id", TRUE)>>
                t2 == IF Truthy(Get(updateData, "email"))
                      THEN t1 \o <<CheckEv("email", emailRegexTest(updateData.email.s))>>
                      ELSE t1
            IN  IF Truthy(Get(updateData, "email")) /\ ~emailRegexTest(updateData.email.s)
                THEN Done(s, rq, t2, errorResponse("Invalid email format", 400))
                ELSE IF Truthy(Get(updateData, "phone"))
                        /\ ~phoneRegexTest(updateData.phone.s)
                THEN Done(s, rq, t2 \o <<CheckEv("phone", FALSE)>>,
                          errorResponse("Invalid phone format", 400))
                ELSE Wait(s, rq,
                          IF Truthy(Get(updateData, "phone"))
                          THEN t2 \o <<CheckEv("phone", TRUE)>> ELSE t2,
                          "members.PUT.update", WithUpdatedAt(updateData))

\* the status of a failed member update
members_PUT_error_NoConflict(code) ==
    IF code = "PGRST116" THEN errorResponse("Member not found", 404)
    ELSE errorResponse("Failed to update member", 500)
members_PUT_error(code) ==
    IF code = "PGRST116" THEN errorResponse("Member not found", 404)
    ELSE IF code = "23505"
    THEN errorResponse("Email or phone already exists for another member", 409)
    ELSE errorResponse("Failed to update member", 500)

\* .from('members').update({...updateData, updated_at}).eq('id', memberId)
\* .select().single() and the response
members_PUT_update(s) ==
    /\ inflight[s].pc = "members.PUT.update"
    /\ UNCHANGED <<pricing_plans, transactions>>
    /\ \E fault \in BOOLEAN :
        LET rq == inflight[s].req
            a == StoreUpdate("members", rq.id, inflight[s].loc, fault)
            tr == inflight[s].trace \o <<StoreEv("members", "update", a.code)>>
        IN  /\ members' = a.table
            /\ IF a.code \in {"PGRST116", "23505"}
               THEN Done(s, rq, tr, members_PUT_error(a.code))
               ELSE IF a.code # "ok"
               THEN Done(s, rq, tr \o <<LogEv>>, members_PUT_error(a.code))
               ELSE Done(s, rq, tr, successResponse(a.row, 200))

\* DELETE up to its store call: the key, the id
members_DELETE(s, rq) ==
    /\ Free(s) /\ rq.ep = "members.DELETE"
    /\ UNCHANGED store
    /\ IF ~validateApiKey(rq)
       THEN Done(s, rq, <<AuthEv(FALSE)>>,
                 errorResponse("Invalid or missing API key", 401))
       ELSE IF rq.id = <<>> \/ rq.id = SegMembers
       THEN Done(s, rq, <<AuthEv(TRUE), CheckEv("id", FALSE)>>,
                 errorResponse("Member ID is required", 400))
       ELSE Wait(s, rq, <<AuthEv(TRUE), CheckEv("id", TRUE)>>, "members.DELETE.delete", Null)

\* .from('members').delete().eq('id', memberId) and the response
members_DELETE_delete(s) ==
    /\ inflight[s].pc = "members.DELETE.delete"
    /\ UNCHANGED <<pricing_plans, transactions>>
    /\ \E fault \in BOOLEAN :
        LET rq == inflight[s].req
            a == StoreDelete("members", rq.id, fault)
            tr == inflight[s].trace \o <<StoreEv("members", "delete", a.code)>>
        IN  /\ members' = a.table
            /\ IF a.code # "ok"
               THEN Done(s, rq, tr \o <<LogEv>>, errorResponse("Failed to delete member", 500))
               ELSE Done(s, rq, tr, emptyResponse)

(***************************************************************************)
(* /api/pricing_plans: GET (the list, public) and POST.                    *)
(***************************************************************************)
PlanActiveFilter(q) ==
    IF QGet(q, "active_only") = Str(<<"t", "r", "u", "e">>)
    THEN {Eq("is_active", Bool(TRUE))}
    ELSE {}

\* GET: no key is asked for; the query is built
plans_GET(s, rq) ==
    /\ Free(s) /\ rq.ep = "plans.GET"
    /\ UNCHANGED store
    /\ Wait(s, rq, <<>>, "plans.GET.list", Null)

\* the answers the store may give to the list query of a query string: the
\* filters, .order('price', {ascending: true}), .range(offset, offset + limit - 1)
plans_GET_query(q, fault) ==
    LET page == IntParam(q, "page", <<"1">>)
        limit == IntParam(q, "limit", <<"1", "0">>)
        offset == Offset(page, limit)
    IN  StoreList("pricing_plans", PlanActiveFilter(q), "price", TRUE,
                  offset, JsSub(JsAdd(offset, limit), Num(1)), fault)

\* the list query and the response with its pagination summary
plans_GET_list(s) ==
    /\ inflight[s].pc = "plans.GET.list"
    /\ UNCHANGED store
    /\ \E fault \in BOOLEAN :
        LET rq == inflight[s].req
            page == IntParam(rq.query, "page", <<"1">>)
            limit == IntParam(rq.query, "limit", <<"1", "0">>)
        IN  \E a \in plans_GET_query(rq.query, fault) :
                LET tr == inflight[s].trace
                              \o <<StoreEv("pricing_plans", "select", a.code)>>
                IN  IF a.code # "ok"
                    THEN Done(s, rq, tr \o <<LogEv>>,
                              errorResponse("Failed to fetch pricing plans", 500))
                    ELSE Done(s, rq, tr, listResponse(a.rows, page, limit, a.count))

PlanRequired == <<"name", "price", "duration_days">>

\* v <= 0 for a JSON value: null counts as 0, undefined compares false
LeZero_Negative(v) == v.t = "num" /\ v.n < 0
LeZero(v) == (v.t = "num" /\ v.n <= 0) \/ v.t = "null"

\* { ...planData, is_active: planData.is_active !== undefined ? .. : true }
planWithDefaults(planData) ==
    [f \in DOMAIN planData \cup {"is_active"} |->
        IF f = "is_active" /\ f \notin DOMAIN planData THEN Bool(TRUE) ELSE planData[f]]

\* POST up to its store call: the key, the body, the required fields, the
\* price, the duration
plans_POST(s, rq) ==
    /\ Free(s) /\ rq.ep = "plans.POST"
    /\ HasRoom("pricing_plans", {"plans.POST.insert"})
    /\ UNCHANGED store
    /\ IF ~validateApiKey(rq)
       THEN Done(s, rq, <<AuthEv(FALSE)>>,
                 errorResponse("Invalid or missing API key", 401))
       ELSE IF rq.body = BadJson
       THEN Caught(s, rq, <<AuthEv(TRUE)>>)
       ELSE IF MissingFields(PlanRequired, rq.body) # <<>>
       THEN Done(s, rq, <<AuthEv(TRUE), CheckEv("required", FALSE)>>,
                 missingResponse(MissingFields(PlanRequired, rq.body)))
       ELSE IF LeZero(rq.body.price)
       THEN Done(s, rq, <<AuthEv(TRUE), CheckEv("required", TRUE), CheckEv("price", FALSE)>>,
                 errorResponse("Price must be greater than 0", 400))
       ELSE IF LeZero(rq.body.duration_days)
       THEN Done(s, rq, <<AuthEv(TRUE), CheckEv("required", TRUE), CheckEv("price", TRUE),
                          CheckEv("duration_days", FALSE)>>,
                 errorResponse("Duration days must be greater than 0", 400))
       ELSE Wait(s, rq, <<AuthEv(TRUE), CheckEv("required", TRUE), CheckEv("price", TRUE),
                          CheckEv("duration_days", TRUE)>>,
                 "plans.POST.insert", planWithDefaults(rq.body))

\* the status of a failed plan insert
plans_POST_error(code) ==
    IF code = "23505"
    THEN errorResponse("Pricing plan with this name already exists", 409)
    ELSE errorResponse("Failed to create pricing plan", 500)

\* .from('pricing_plans').insert([planWithDefaults]).select().single()
plans_POST_insert(s) ==
    /\ inflight[s].pc = "plans.POST.insert"
    /\ UNCHANGED <<members, transactions>>
    /\ \E fault \in BOOLEAN :
        LET rq == inflight[s].req
            a == StoreInsert("pricing_plans", inflight[s].loc, fault)
            tr == inflight[s].trace \o <<StoreEv("pricing_plans", "insert", a.code)>>
        IN  /\ pricing_plans' = a.table
            /\ IF a.code = "23505" THEN Done(s, rq, tr, plans_POST_error(a.code))
               ELSE IF a.code # "ok"
               THEN Done(s, rq, tr \o <<LogEv>>, plans_POST_error(a.code))
               ELSE Done(s, rq, tr, successResponse(a.row, 201))

(***************************************************************************)
(* /api/pricing_plans/:id: GET (public), PUT, DELETE.                      *)
(***************************************************************************)
\* GET up to its store call: the id format
plan_GET(s, rq) ==
    /\ Free(s) /\ rq.ep = "plan.GET"
    /\ UNCHANGED store
    /\ IF ~IsUUID(rq.id)
       THEN Done(s, rq, <<CheckEv("id", FALSE)>>,
                 errorResponse("Invalid pricing plan ID format", 400))
       ELSE Wait(s, rq, <<CheckEv("id", TRUE)>>, "plan.GET.select", Null)

\* .from('pricing_plans').select('*').eq('id', planId).single()
plan_GET_select(s) ==
    /\ inflight[s].pc = "plan.GET.select"
    /\ UNCHANGED store
    /\ \E fault \in BOOLEAN :
        LET rq == inflight[s].req
            a == StoreSelectSingle("pricing_plans", rq.id, fault)
            tr == inflight[s].trace \o <<StoreEv("pricing_plans", "select", a.code)>>
        IN  IF a.code = "PGRST116"
            THEN Done(s, rq, tr, errorResponse("Pricing plan not found", 404))
            ELSE IF a.code # "ok"
            THEN Done(s, rq, tr \o <<LogEv>>,
                      errorResponse("Failed to fetch pricing plan", 500))
            ELSE Done(s, rq, tr, successResponse(a.row, 200))

\* field !== undefined && field <= 0
GivenLeZero(body, f) == Get(body, f) # Undefined /\ LeZero(Get(body, f))

\* PUT up to its store call: the key, the id format, the body without its
\* id, the price and the duration when given
plan_PUT(s, rq) ==
    /\ Free(s) /\ rq.ep = "plan.PUT"
    /\ UNCHANGED store
    /\ IF ~validateApiKey(rq)
       THEN Done(s, rq, <<AuthEv(FALSE)>>,
                 errorResponse("Invalid or missing API key", 401))
       ELSE IF ~IsUUID(rq.id)
       THEN Done(s, rq, <<AuthEv(TRUE), CheckEv("id", FALSE)>>,
                 errorResponse("Invalid pricing plan ID format", 400))
       ELSE IF rq.body = BadJson
       THEN Caught(s, rq, <<AuthEv(TRUE), CheckEv("id", TRUE)>>)
       ELSE IF GivenLeZero(DeleteId(rq.body), "price")
       THEN Done(s, rq, <<AuthEv(TRUE), CheckEv("id", TRUE), CheckEv("price", FALSE)>>,
                 errorResponse("Price must be greater than 0", 400))
       ELSE IF GivenLeZero(DeleteId(rq.body), "duration_days")
       THEN Done(s, rq, <<AuthEv(TRUE), CheckEv("id", TRUE), CheckEv("price", TRUE),
                          CheckEv("duration_days", FALSE)>>,
                 errorResponse("Duration days must be greater than 0", 400))
       ELSE Wait(s, rq, <<AuthEv(TRUE), CheckEv("id", TRUE), CheckEv("price", TRUE),
                          CheckEv("duration_days", TRUE)>>,
                 "plan.PUT.update", WithUpdatedAt(DeleteId(rq.body)))

\* the status of a failed plan update
plan_PUT_error(code) ==
    IF code = "PGRST116" THEN errorResponse("Pricing plan not found", 404)
    ELSE IF code = "23505"
    THEN errorResponse("Pricing plan with this name already exists", 409)
    ELSE errorResponse("Failed to update pricing plan", 500)

\* .from('pricing_plans').update({...updateData, updated_at}).eq('id', planId)
\* .select().single() and the response
plan_PUT_update(s) ==
    /\ inflight[s].pc = "plan.PUT.update"
    /\ UNCHANGED <<members, transactions>>
    /\ \E fault \in BOOLEAN :
        LET rq == inflight[s].req
            a == StoreUpdate("pricing_plans", rq.id, inflight[s].loc, fault)
            tr == inflight[s].trace \o <<StoreEv("pricing_plans", "update", a.code)>>
        IN  /\ pricing_plans' = a.table
            /\ IF a.code \in {"PGRST116", "23505"}
               THEN Done(s, rq, tr, plan_PUT_error(a.code))
               ELSE IF a.code # "ok"
               THEN Done(s, rq, tr \o <<LogEv>>, plan_PUT_error(a.code))
               ELSE Done(s, rq, tr, successResponse(a.row, 200))

\* DELETE up to its first store call: the key, the id format
plan_DELETE(s, rq) ==
    /\ Free(s) /\ rq.ep = "plan.DELETE"
    /\ UNCHANGED store
    /\ IF ~validateApiKey(rq)
       THEN Done(s, rq, <<AuthEv(FALSE)>>,
                 errorResponse("Invalid or missing API key", 401))
       ELSE IF ~IsUUID(rq.id)
       THEN Done(s, rq, <<AuthEv(TRUE), CheckEv("id", FALSE)>>,
                 errorResponse("Invalid pricing plan ID format", 400))
       ELSE Wait(s, rq, <<AuthEv(TRUE), CheckEv("id", TRUE)>>, "plan.DELETE.check", Null)

\* membersUsingPlan && membersUsingPlan.length > 0
PlanInUse_Never(membersUsingPlan) == FALSE
PlanInUse(membersUsingPlan) == membersUsingPlan # <<>>

\* .from('members').select('id').eq('subscription_plan_id', planId).limit(1)
\* and what follows it: 500, 409, or on to the delete
plan_DELETE_check(s) ==
    /\ inflight[s].pc = "plan.DELETE.check"
    /\ UNCHANGED store
    /\ \E fault \in BOOLEAN :
        LET rq == inflight[s].req
            using == SelectSeq(members,
                         LAMBDA r : r.subscription_plan_id = ParseUuid(rq.id))
            code == IF fault THEN "ERR" ELSE "ok"
            tr == inflight[s].trace \o <<StoreEv("members", "select", code)>>
        IN  IF fault
            THEN Done(s, rq, tr \o <<LogEv>>,
                      errorResponse("Failed to check plan usage", 500))
            ELSE IF PlanInUse(SubSeq(using, 1, Min(1, Len(using))))
            THEN Done(s, rq, tr,
                      errorResponse(
                          "Cannot delete pricing plan that is currently in use by members",
                          409))
            ELSE Wait(s, rq, tr, "plan.DELETE.delete", Null)

\* .from('pricing_plans').delete().eq('id', planId) and the response
plan_DELETE_delete(s) ==
    /\ inflight[s].pc = "plan.DELETE.delete"
    /\ UNCHANGED <<members, transactions>>
    /\ \E fault \in BOOLEAN :
        LET rq == inflight[s].req
            a == StoreDelete("pricing_plans", rq.id, fault)
            tr == inflight[s].trace \o <<StoreEv("pricing_plans", "delete", a.code)>>
        IN  /\ pricing_plans' = a.table
            /\ IF a.code # "ok"
               THEN Done(s, rq, tr \o <<LogEv>>,
                         errorResponse("Failed to delete pricing plan", 500))
               ELSE Done(s, rq, tr, emptyResponse)

(***************************************************************************)
(* Bearer tokens.  A token is garbage, empty, or signed by one of the two  *)
(* issuers (the handlers' own signing secret, the identity provider), and  *)
(* names a subject; a signed token may have expired.                       *)
(***************************************************************************)
Token(kind, expired, sub) == [kind |-> kind, expired |-> expired, sub |-> sub]

\* an Authorization header: with or without the "Bearer " prefix
Header(bearer, token) == [present |-> TRUE, bearer |-> bearer, token |-> token]

\* verify(token, process.env.JWT_SECRET) does not throw
VerifyOk(token) == token.kind = "jwt" /\ ~token.expired

\* validateMemberToken: the memberId of the token, NoId for null or undefined
validateMemberToken_NoExpiry(request) ==
    IF request.auth.present /\ request.auth.bearer /\ request.auth.token.kind = "jwt"
    THEN request.auth.token.sub
    ELSE NoId
validateMemberToken(request) ==
    IF ~request.auth.present THEN NoId
    ELSE IF ~request.auth.bearer THEN NoId
    ELSE IF VerifyOk(request.auth.token) THEN request.auth.token.sub
    ELSE NoId

(***************************************************************************)
(* /api/transactions: GET (the list) and POST.                             *)
(***************************************************************************)
TxFilters_NoDateTo(q) ==
    {Eq(c, QGet(q, c)) : c \in {c \in {"member_id", "plan_id", "status", "payment_method"} :
                                    Truthy(QGet(q, c))}}
    \cup (IF Truthy(QGet(q, "date_from"))
          THEN {Gte("transaction_date", QGet(q, "date_from"))} ELSE {})
TxFilters(q) ==
    {Eq(c, QGet(q, c)) : c \in {c \in {"member_id", "plan_id", "status", "payment_method"} :
                                    Truthy(QGet(q, c))}}
    \cup (IF Truthy(QGet(q, "date_from"))
          THEN {Gte("transaction_date", QGet(q, "date_from"))} ELSE {})
    \cup (IF Truthy(QGet(q, "date_to"))
          THEN {Lte("transaction_date", QGet(q, "date_to"))} ELSE {})

\* GET up to its store call: the key
tx_GET(s, rq) ==
    /\ Free(s) /\ rq.ep = "tx.GET"
    /\ UNCHANGED store
    /\ IF ~validateApiKey(rq)
       THEN Done(s, rq, <<AuthEv(FALSE)>>,
                 errorResponse("Invalid or missing API key", 401))
       ELSE Wait(s, rq, <<AuthEv(TRUE)>>, "tx.GET.list", Null)

\* the answers the store may give to the list query of a query string: the
\* filters, .order('created_at', {ascending: false}), .range(offset, offset + limit - 1)
tx_GET_query(q, fault) ==
    LET page == IntParam(q, "page", <<"1">>)
        limit == IntParam(q, "limit", <<"1", "0">>)
        offset == Offset(page, limit)
    IN  StoreList("transactions", TxFilters(q), "created_at", FALSE,
                  offset, JsSub(JsAdd(offset, limit), Num(1)), fault)

\* the list query and the response with its pagination summary
tx_GET_list(s) ==
    /\ inflight[s].pc = "tx.GET.list"
    /\ UNCHANGED store
    /\ \E fault \in BOOLEAN :
        LET rq == inflight[s].req
            page == IntParam(rq.query, "page", <<"1">>)
            limit == IntParam(rq.query, "limit", <<"1", "0">>)
        IN  \E a \in tx_GET_query(rq.query, fault) :
                LET tr == inflight[s].trace
                              \o <<StoreEv("transactions", "select", a.code)>>
                IN  IF a.code # "ok"
                    THEN Done(s, rq, tr \o <<LogEv>>,
                              errorResponse("Failed to fetch transactions", 500))
                    ELSE Done(s, rq, tr, listResponse(a.rows, page, limit, a.count))

TxRequired == <<"member_id", "amount", "payment_method", "transaction_date">>

\* !member, !plan: the `data` of a .single() read is null unless a row came
NoData_Never(a) == FALSE
NoData(a) == a.code # "ok"

\* { ...transactionData, status: transactionData.status || 'pending' }
txWithStatus(body) ==
    [f \in DOMAIN body \cup {"status"} |->
        IF f = "status"
        THEN Or(Get(body, "status"), Str(<<"p", "e", "n", "d", "i", "n", "g">>))
        ELSE body[f]]

\* POST up to its first store call: the key, the body, the required fields,
\* the amount
tx_POST(s, rq) ==
    /\ Free(s) /\ rq.ep = "tx.POST"
    /\ HasRoom("transactions", {"tx.POST.member", "tx.POST.plan", "tx.POST.insert"})
    /\ UNCHANGED store
    /\ IF ~validateApiKey(rq)
       THEN Done(s, rq, <<AuthEv(FALSE)>>,
                 errorResponse("Invalid or missing API key", 401))
       ELSE IF rq.body = BadJson
       THEN Caught(s, rq, <<AuthEv(TRUE)>>)
       ELSE IF MissingFields(TxRequired, rq.body) # <<>>
       THEN Done(s, rq, <<AuthEv(TRUE), CheckEv("required", FALSE)>>,
                 missingResponse(MissingFields(TxRequired, rq.body)))
       ELSE IF LeZero(rq.body.amount)
       THEN Done(s, rq, <<AuthEv(TRUE), CheckEv("required", TRUE), CheckEv("amount", FALSE)>>,
                 errorResponse("Amount must be greater than 0", 400))
       ELSE Wait(s, rq, <<AuthEv(TRUE), CheckEv("required", TRUE), CheckEv("amount", TRUE)>>,
                 "tx.POST.member", Null)

\* .from('members').select('id').eq('id', member_id).single(): no row, or any
\* error, leaves `member` null
tx_POST_member(s) ==
    /\ inflight[s].pc = "tx.POST.member"
    /\ UNCHANGED store
    /\ \E fault \in BOOLEAN :
        LET rq == inflight[s].req
            a == StoreSelectSingle("members", rq.body.member_id.s, fault)
            tr == inflight[s].trace \o <<StoreEv("members", "select", a.code)>>
        IN  IF NoData(a)
            THEN Done(s, rq, tr, errorResponse("Member not found", 404))
            ELSE IF Truthy(Get(rq.body, "plan_id"))
            THEN Wait(s, rq, tr, "tx.POST.plan", Null)
            ELSE Wait(s, rq, tr, "tx.POST.insert", Null)

\* .from('pricing_plans').select('id').eq('id', plan_id).single()
tx_POST_plan(s) ==
    /\ inflight[s].pc = "tx.POST.plan"
    /\ UNCHANGED store
    /\ \E fault \in BOOLEAN :
        LET rq == inflight[s].req
            a == StoreSelectSingle("pricing_plans", rq.body.plan_id.s, fault)
            tr == inflight[s].trace \o <<StoreEv("pricing_plans", "select", a.code)>>
        IN  IF NoData(a)
            THEN Done(s, rq, tr, errorResponse("Pricing plan not found", 404))
            ELSE Wait(s, rq, tr, "tx.POST.insert", Null)

\* .from('transactions').insert([{...}]).select(..).single() and the response
tx_POST_insert(s) ==
    /\ inflight[s].pc = "tx.POST.insert"
    /\ UNCHANGED <<members, pricing_plans>>
    /\ \E fault \in BOOLEAN :
        LET rq == inflight[s].req
            a == StoreInsert("transactions", txWithStatus(rq.body), fault)
            tr == inflight[s].trace \o <<StoreEv("transactions", "insert", a.code)>>
        IN  /\ transactions' = a.table
            /\ IF a.code # "ok"
               THEN Done(s, rq, tr \o <<LogEv>>,
                         errorResponse("Failed to create transaction", 500))
               ELSE Done(s, rq, tr, successResponse(a.row, 201))

(***************************************************************************)
(* /api/transactions/:id: GET (admin or owner) and PUT.                    *)
(***************************************************************************)
\* GET up to its store call: the id format
txid_GET(s, rq) ==
    /\ Free(s) /\ rq.ep = "txid.GET"
    /\ UNCHANGED store
    /\ IF ~IsUUID(rq.id)
       THEN Done(s, rq, <<CheckEv("id", FALSE)>>,
                 errorResponse("Invalid transaction ID format", 400))
       ELSE Wait(s, rq, <<CheckEv("id", TRUE)>>, "txid.GET.select", Null)

\* !isAdmin && authenticatedMemberId !== transaction.member_id
AccessDenied_OwnerOnly(request, transaction) ==
    validateMemberToken(request) # transaction.member_id
AccessDenied(request, transaction) ==
    ~validateApiKey(request) /\ validateMemberToken(request) # transaction.member_id

\* .from('transactions').select(..).eq('id', transactionId).single(), then
\* the check of the caller, then the response
txid_GET_select(s) ==
    /\ inflight[s].pc = "txid.GET.select"
    /\ UNCHANGED store
    /\ \E fault \in BOOLEAN :
        LET rq == inflight[s].req
            a == StoreSelectSingle("transactions", rq.id, fault)
            tr == inflight[s].trace \o <<StoreEv("transactions", "select", a.code)>>
        IN  IF a.code = "PGRST116"
            THEN Done(s, rq, tr, errorResponse("Transaction not found", 404))
            ELSE IF a.code # "ok"
            THEN Done(s, rq, tr \o <<LogEv>>,
                      errorResponse("Failed to fetch transaction", 500))
            ELSE IF AccessDenied(rq, a.row)
            THEN Done(s, rq, tr \o <<AuthEv(FALSE)>>,
                      errorResponse(
                          "Access denied. Admin access or transaction ownership required",
                          403))
            ELSE Done(s, rq, tr \o <<AuthEv(TRUE)>>, successResponse(a.row, 200))

\* PUT up to its first store call: the key, the id format, the body without
\* its id, the amount when given
txid_PUT(s, rq) ==
    /\ Free(s) /\ rq.ep = "txid.PUT"
    /\ UNCHANGED store
    /\ IF ~validateApiKey(rq)
       THEN Done(s, rq, <<AuthEv(FALSE)>>,
                 errorResponse("Invalid or missing API key", 401))
       ELSE IF ~IsUUID(rq.id)
       THEN Done(s, rq, <<AuthEv(TRUE), CheckEv("id", FALSE)>>,
                 errorResponse("Invalid transaction ID format", 400))
       ELSE IF rq.body = BadJson
       THEN Caught(s, rq, <<AuthEv(TRUE), CheckEv("id", TRUE)>>)
       ELSE IF GivenLeZero(DeleteId(rq.body), "amount")
       THEN Done(s, rq, <<AuthEv(TRUE), CheckEv("id", TRUE), CheckEv("amount", FALSE)>>,
                 errorResponse("Amount must be greater than 0", 400))
       ELSE Wait(s, rq, <<AuthEv(TRUE), CheckEv("id", TRUE), CheckEv("amount", TRUE)>>,
                 IF Truthy(Get(rq.body, "member_id")) THEN "txid.PUT.member"
                 ELSE IF Truthy(Get(rq.body, "plan_id")) THEN "txid.PUT.plan"
                 ELSE "txid.PUT.update",
                 WithUpdatedAt(DeleteId(rq.body)))

\* the member named by the body must exist
txid_PUT_member(s) ==
    /\ inflight[s].pc = "txid.PUT.member"
    /\ UNCHANGED store
    /\ \E fault \in BOOLEAN :
        LET rq == inflight[s].req
            a == StoreSelectSingle("members", rq.body.member_id.s, fault)
            tr == inflight[s].trace \o <<StoreEv("members", "select", a.code)>>
        IN  IF NoData(a)
            THEN Done(s, rq, tr, errorResponse("Member not found", 404))
            ELSE IF Truthy(Get(rq.body, "plan_id"))
            THEN Wait(s, rq, tr, "txid.PUT.plan", inflight[s].loc)
            ELSE Wait(s, rq, tr, "txid.PUT.update", inflight[s].loc)

\* the plan named by the body must exist
txid_PUT_plan(s) ==
    /\ inflight[s].pc = "txid.PUT.plan"
    /\ UNCHANGED store
    /\ \E fault \in BOOLEAN :
        LET rq == inflight[s].req
            a == StoreSelectSingle("pricing_plans", rq.body.plan_id.s, fault)
            tr == inflight[s].trace \o <<StoreEv("pricing_plans", "select", a.code)>>
        IN  IF NoData(a)
            THEN Done(s, rq, tr, errorResponse("Pricing plan not found", 404))
            ELSE Wait(s, rq, tr, "txid.PUT.update", inflight[s].loc)

\* .from('transactions').update({...updateData, updated_at})
\* .eq('id', transactionId).select(..).single() and the response
txid_PUT_update(s) ==
    /\ inflight[s].pc = "txid.PUT.update"
    /\ UNCHANGED <<members, pricing_plans>>
    /\ \E fault \in BOOLEAN :
        LET rq == inflight[s].req
            a == StoreUpdate("transactions", rq.id, inflight[s].loc, fault)
            tr == inflight[s].trace \o <<StoreEv("transactions", "update", a.code)>>
        IN  /\ transactions' = a.table
            /\ IF a.code = "PGRST116"
               THEN Done(s, rq, tr, errorResponse("Transaction not found", 404))
               ELSE IF a.code # "ok"
               THEN Done(s, rq, tr \o <<LogEv>>,
                         errorResponse("Failed to update transaction", 500))
               ELSE Done(s, rq, tr, successResponse(a.row, 200))

(***************************************************************************)
(* /api/members/me, in its two implementations.                            *)
(***************************************************************************)
\* the app-router GET up to its store call: the bearer token
me_GET(s, rq) ==
    /\ Free(s) /\ rq.ep = "me.GET"
    /\ UNCHANGED store
    /\ IF validateMemberToken(rq) = NoId
       THEN Done(s, rq, <<AuthEv(FALSE)>>,
                 errorResponse("Invalid or missing authentication token", 401))
       ELSE Wait(s, rq, <<AuthEv(TRUE)>>, "me.GET.select", validateMemberToken(rq))

\* .from('members').select('*').eq('id', memberId).single() and the response
me_GET_select(s) ==
    /\ inflight[s].pc = "me.GET.select"
    /\ UNCHANGED store
    /\ \E fault \in BOOLEAN :
        LET rq == inflight[s].req
            a == StoreSelectSingle("members", UuidText(inflight[s].loc), fault)
            tr == inflight[s].trace \o <<StoreEv("members", "select", a.code)>>
        IN  IF a.code = "PGRST116"
            THEN Done(s, rq, tr, errorResponse("Member not found", 404))
            ELSE IF a.code # "ok"
            THEN Done(s, rq, tr \o <<LogEv>>,
                      errorResponse("Failed to fetch member profile", 500))
            ELSE Done(s, rq, tr, successResponse(a.row, 200))

\* res.status(status).json({ error })
pagesError(message, status) == [status |-> status, body |-> [error |-> message]]

\* req.headers.authorization?.replace('Bearer ', ''): the token, with or
\* without the prefix; nothing for no header or an empty token
PagesTokenGiven(request) == request.auth.present /\ request.auth.token.kind # "empty"

\* supabase.auth.getUser(token) returns a user
GetUserOk_AnySigned(token) == token.kind = "supabase"
GetUserOk(token) == token.kind = "supabase" /\ ~token.expired

\* the pages-router handler up to its store call: the method, the token,
\* the identity provider's answer
me_pages(s, rq) ==
    /\ Free(s) /\ rq.ep = "me.pages"
    /\ UNCHANGED store
    /\ IF rq.method # "GET"
       THEN Done(s, rq, <<>>, pagesError("Method Not Allowed", 405))
       ELSE IF ~PagesTokenGiven(rq)
       THEN Done(s, rq, <<AuthEv(FALSE)>>, pagesError("Missing auth token", 401))
       ELSE IF ~GetUserOk(rq.auth.token)
       THEN Done(s, rq, <<StoreEv("auth", "getUser", "ERR"), AuthEv(FALSE)>>,
                 pagesError("Invalid or expired token", 401))
       ELSE Wait(s, rq, <<StoreEv("auth", "getUser", "ok"), AuthEv(TRUE)>>,
                 "me.pages.select", rq.auth.token.sub)

\* the text of a store error, as the client library reports it
ErrorMessage(code) ==
    IF code = "PGRST116" THEN "JSON object requested, multiple (or no) rows returned"
    ELSE "store error"

\* .from('members').select('*').eq('id', user.id).single() and the response
me_pages_select(s) ==
    /\ inflight[s].pc = "me.pages.select"
    /\ UNCHANGED store
    /\ \E fault \in BOOLEAN :
        LET rq == inflight[s].req
            a == StoreSelectSingle("members", UuidText(inflight[s].loc), fault)
            tr == inflight[s].trace \o <<StoreEv("members", "select", a.code)>>
        IN  IF a.code # "ok"
            THEN Done(s, rq, tr, pagesError(ErrorMessage(a.code), 500))
            ELSE Done(s, rq, tr, [status |-> 200, body |-> [member |-> a.row]])

(***************************************************************************)
(* The requests the clients send.                                          *)
(***************************************************************************)
PlanGold == <<"G", "o", "l", "d">>
PlanSilver == <<"S", "i", "l", "v", "e", "r">>
MethodCard == <<"c", "a", "r", "d">>
Query(key, page, limit) == [api_key |-> key, page |-> page, limit |-> limit]
AdminQuery == Query(ADMIN_API_KEY, Null, Null)
BadQueries == {Query(k, Null, Null) : k \in BadApiKeys}

PageTexts == {Null, Str(<<"2">>)}
LimitTexts == {Null, Str(<<"1">>), Str(<<"0">>), Str(<<"a", "b", "c">>)}
ListQueries(keys) == {Query(k, p, l) : k \in keys, p \in PageTexts, l \in LimitTexts}

MemberTexts == {UuidText(MemberIdPool[1]), UuidText(MemberIdPool[2])}
PlanTexts == {UuidText(PlanIdPool[1]), UuidText(PlanIdPool[2])}
TransactionTexts == {UuidText(TransactionIdPool[1]), UuidText(TransactionIdPool[2])}

MemberBody(fn, ph, em, plan) ==
    Json([first_name |-> fn, last_name |-> Str(NameLee), phone |-> ph, email |-> em,
          subscription_plan_id |-> plan])

ValidMemberBodies ==
    {MemberBody(Str(NameAl), Str(ph), Str(em), plan) :
        ph \in {PhoneIntl, PhoneLocal}, em \in {EmailA, EmailB},
        plan \in {Undefined, Str(UuidText(PlanIdPool[1]))}}

InvalidMemberBodies ==
    {MemberBody(Undefined, Str(PhoneIntl), Str(EmailA), Undefined),
     MemberBody(Str(NameAl), Str(PhoneAbc), Undefined, Undefined),
     MemberBody(Str(NameAl), Str(PhoneIntl), Str(EmailBad), Undefined),
     MemberBody(Str(NameAl), Str(PhoneAbc), Str(EmailBad), Undefined),
     MemberBody(Str(NameAl), Str(PhoneAbc), Str(EmailA), Undefined),
     BadJson}

MemberPatches ==
    {Json([email |-> Str(EmailA)]), Json([email |-> Str(EmailB)]),
     Json([phone |-> Str(PhoneIntl)]), Json([phone |-> Str(PhoneLocal)]),
     Json([subscription_plan_id |-> Str(UuidText(PlanIdPool[1]))]),
     Json([subscription_plan_id |-> Null]),
     Json([id |-> Str(UuidText(MemberIdPool[2])), email |-> Str(EmailA)])}

InvalidMemberPatches ==
    {Json([email |-> Str(EmailBad)]), Json([phone |-> Str(PhoneAbc)]),
     Json([email |-> Str(EmailBad), phone |-> Str(PhoneAbc)]), BadJson}

MembersGetReqs ==
    {Request("members.GET", "GET", AdminQuery, NoAuth, id, NoBody) : id \in MemberTexts}
    \cup {Request("members.GET", "GET", q, NoAuth, UuidText(MemberIdPool[1]), NoBody) :
        q \in BadQueries}
    \cup {Request("members.GET", "GET", q, NoAuth, id, NoBody) :
        q \in ListQueries({ADMIN_API_KEY}), id \in {SegMembers}}
    \cup {Request("members.GET", "GET", AdminQuery, NoAuth, SegAbc, NoBody)}

MembersPostReqs ==
    {Request("members.POST", "POST", AdminQuery, NoAuth, SegMembers, b) :
        b \in ValidMemberBodies \cup InvalidMemberBodies}
    \cup {Request("members.POST", "POST", q, NoAuth, SegMembers, b) :
        q \in BadQueries,
        b \in {MemberBody(Str(NameAl), Str(PhoneIntl), Str(EmailA), Undefined)}}

MembersPutReqs ==
    {Request("members.PUT", "PUT", AdminQuery, NoAuth, id, b) :
        id \in MemberTexts, b \in MemberPatches}
    \cup {Request("members.PUT", "PUT", AdminQuery, NoAuth, UuidText(MemberIdPool[1]), b) :
        b \in InvalidMemberPatches}
    \cup {Request("members.PUT", "PUT", AdminQuery, NoAuth, id, Json([email |-> Str(EmailA)])) :
        id \in {SegAbc, SegMembers, <<>>}}
    \cup {Request("members.PUT", "PUT", q, NoAuth, UuidText(MemberIdPool[1]),
                  Json([email |-> Str(EmailA)])) : q \in BadQueries}
    \cup {Request("members.PUT", "PUT", AdminQuery, NoAuth, UuidText(MemberIdPool[1]),
                  Json([id |-> Str(UuidText(MemberIdPool[2])), email |-> Str(EmailB)]))}

MembersDeleteReqs ==
    {Request("members.DELETE", "DELETE", AdminQuery, NoAuth, id, NoBody) :
        id \in MemberTexts \cup {SegAbc, SegMembers}}
    \cup {Request("members.DELETE", "DELETE", q, NoAuth, UuidText(MemberIdPool[1]), NoBody) :
        q \in BadQueries}

PlanBody(name, price, days) ==
    Json([name |-> name, price |-> price, duration_days |-> days])

ValidPlanBodies == {PlanBody(Str(n), Num(10), Num(30)) : n \in {PlanGold, PlanSilver}}

InvalidPlanBodies ==
    {PlanBody(Str(PlanGold), Num(0), Num(30)),
     PlanBody(Str(PlanGold), Num(0 - 1), Num(0 - 1)),
     PlanBody(Str(PlanGold), Null, Num(30)),
     PlanBody(Str(PlanGold), Num(10), Num(0)),
     PlanBody(Str(PlanGold), Num(10), Num(0 - 1)),
     PlanBody(Undefined, Num(0), Num(0)),
     BadJson}

PlanPatches ==
    {Json([name |-> Str(PlanGold)]), Json([name |-> Str(PlanSilver)]),
     Json([duration_days |-> Num(30)])}

InvalidPlanPatches ==
    {Json([price |-> Num(0)]), Json([price |-> Null]), Json([duration_days |-> Num(0)]),
     Json([price |-> Num(0 - 1)]), Json([duration_days |-> Num(0 - 1)]), BadJson}

PlansGetReqs ==
    {Request("plans.GET", "GET", q, NoAuth, <<>>, NoBody) : q \in ListQueries({Null})}

PlansPostReqs ==
    {Request("plans.POST", "POST", AdminQuery, NoAuth, <<>>, b) :
        b \in ValidPlanBodies \cup InvalidPlanBodies}
    \cup {Request("plans.POST", "POST", q, NoAuth, <<>>,
                  PlanBody(Str(PlanGold), Num(10), Num(30))) : q \in BadQueries}

PlanGetReqs ==
    {Request("plan.GET", "GET", Query(Null, Null, Null), NoAuth, id, NoBody) :
        id \in PlanTexts \cup {SegAbc}}

PlanPutReqs ==
    {Request("plan.PUT", "PUT", AdminQuery, NoAuth, id, b) :
        id \in PlanTexts, b \in PlanPatches}
    \cup {Request("plan.PUT", "PUT", AdminQuery, NoAuth, UuidText(PlanIdPool[1]), b) :
        b \in InvalidPlanPatches}
    \cup {Request("plan.PUT", "PUT", AdminQuery, NoAuth, SegAbc, Json([name |-> Str(PlanGold)]))}
    \cup {Request("plan.PUT", "PUT", q, NoAuth, UuidText(PlanIdPool[1]),
                  Json([name |-> Str(PlanGold)])) : q \in BadQueries}
    \cup {Request("plan.PUT", "PUT", AdminQuery, NoAuth, UuidText(PlanIdPool[1]),
                  Json([id |-> Str(UuidText(PlanIdPool[2])), name |-> Str(PlanSilver)]))}

PlanDeleteReqs ==
    {Request("plan.DELETE", "DELETE", AdminQuery, NoAuth, id, NoBody) :
        id \in PlanTexts \cup {SegAbc}}
    \cup {Request("plan.DELETE", "DELETE", q, NoAuth, UuidText(PlanIdPool[1]), NoBody) :
        q \in BadQueries}

TxBody(member, plan, amount) ==
    Json([member_id |-> member, plan_id |-> plan, amount |-> amount,
          payment_method |-> Str(MethodCard), transaction_date |-> Str(DateJan1)])

ValidTxBodies ==
    {TxBody(Str(UuidText(MemberIdPool[1])), plan, Num(5)) :
        plan \in {Undefined, Str(UuidText(PlanIdPool[1]))}}

StatusBogus == <<"b", "o", "g", "u", "s">>

\* well-formed bodies that name a status of their own
StatusTxBodies ==
    {[f \in DOMAIN b \cup {"status"} |-> IF f = "status" THEN Str(StatusBogus) ELSE b[f]] :
        b \in {TxBody(Str(UuidText(MemberIdPool[1])), Str(UuidText(PlanIdPool[1])), Num(5))}}

InvalidTxBodies ==
    {TxBody(Str(UuidText(MemberIdPool[1])), Undefined, Num(0)),
     TxBody(Str(UuidText(MemberIdPool[1])), Undefined, Num(0 - 1)),
     TxBody(Str(UuidText(MemberIdPool[1])), Undefined, Null),
     TxBody(Undefined, Undefined, Num(5)),
     TxBody(Str(SegAbc), Undefined, Num(5)),
     BadJson}

TxPatches ==
    {Json([amount |-> Num(5)]), Json([member_id |-> Str(UuidText(MemberIdPool[1]))]),
     Json([plan_id |-> Str(UuidText(PlanIdPool[1]))]),
     Json([member_id |-> Str(UuidText(MemberIdPool[1])),
           plan_id |-> Str(UuidText(PlanIdPool[1]))])}

InvalidTxPatches ==
    {Json([amount |-> Num(0)]), Json([amount |-> Null]), Json([amount |-> Num(0 - 1)]),
     BadJson}

TxGetReqs ==
    {Request("tx.GET", "GET", q, NoAuth, <<>>, NoBody) :
        q \in ListQueries({ADMIN_API_KEY}) \cup BadQueries}

TxPostReqs ==
    {Request("tx.POST", "POST", AdminQuery, NoAuth, <<>>, b) :
        b \in ValidTxBodies \cup StatusTxBodies \cup InvalidTxBodies}
    \cup {Request("tx.POST", "POST", q, NoAuth, <<>>,
                  TxBody(Str(UuidText(MemberIdPool[1])), Undefined, Num(5))) :
        q \in BadQueries}

Headers ==
    {NoAuth,
     Header(TRUE, Token("empty", FALSE, NoId)),
     Header(TRUE, Token("garbage", FALSE, NoId)),
     Header(TRUE, Token("jwt", FALSE, MemberIdPool[1])),
     Header(TRUE, Token("jwt", FALSE, MemberIdPool[2])),
     Header(TRUE, Token("jwt", FALSE, NoId)),
     Header(TRUE, Token("jwt", TRUE, MemberIdPool[1])),
     Header(FALSE, Token("jwt", FALSE, MemberIdPool[1])),
     Header(TRUE, Token("supabase", FALSE, MemberIdPool[1])),
     Header(TRUE, Token("supabase", TRUE, MemberIdPool[1])),
     Header(FALSE, Token("supabase", FALSE, MemberIdPool[1])),
     Header(FALSE, Token("garbage", FALSE, NoId))}

TxidGetReqs ==
    {Request("txid.GET", "GET", Query(Null, Null, Null), h,
             UuidText(TransactionIdPool[1]), NoBody) : h \in Headers}
    \cup {Request("txid.GET", "GET", q, h, UuidText(TransactionIdPool[1]), NoBody) :
        q \in {AdminQuery, Query(Str(<<"k">>), Null, Null)},
        h \in {NoAuth, Header(TRUE, Token("jwt", FALSE, MemberIdPool[2]))}}
    \cup {Request("txid.GET", "GET", Query(Null, Null, Null), NoAuth, id, NoBody) :
        id \in {SegAbc, UuidText(TransactionIdPool[2])}}

TxidPutReqs ==
    {Request("txid.PUT", "PUT", AdminQuery, NoAuth, id, b) :
        id \in {UuidText(TransactionIdPool[1])}, b \in TxPatches \cup InvalidTxPatches}
    \cup {Request("txid.PUT", "PUT", AdminQuery, NoAuth, id, Json([amount |-> Num(5)])) :
        id \in {SegAbc, UuidText(TransactionIdPool[2])}}
    \cup {Request("txid.PUT", "PUT", q, NoAuth, UuidText(TransactionIdPool[1]),
                  Json([amount |-> Num(5)])) : q \in BadQueries}
    \cup {Request("txid.PUT", "PUT", AdminQuery, NoAuth, UuidText(TransactionIdPool[1]),
                  Json([id |-> Str(UuidText(TransactionIdPool[2])), amount |-> Num(5)]))}

MeGetReqs ==
    {Request("me.GET", "GET", Query(Null, Null, Null), h, <<>>, NoBody) : h \in Headers}

MePagesReqs ==
    {Request("me.pages", "GET", Query(Null, Null, Null), h, <<>>, NoBody) : h \in Headers}
    \cup {Request("me.pages", "POST", Query(Null, Null, Null), NoAuth, <<>>, NoBody)}

(***************************************************************************)
(* The system: requests served one at a time over an initially empty store.*)
(***************************************************************************)
Init ==
    /\ members = <<>>
    /\ pricing_plans = <<>>
    /\ transactions = <<>>
    /\ inflight = [s \in Slots |-> IF s = 1 THEN Idle ELSE Off]

Next ==
    \E s \in Slots :
        \/ \E rq \in MembersGetReqs : members_GET(s, rq)
        \/ members_GET_single(s)
        \/ members_GET_list(s)
        \/ \E rq \in MembersPostReqs : members_POST(s, rq)
        \/ members_POST_insert(s)
        \/ \E rq \in MembersPutReqs : members_PUT(s, rq)
        \/ members_PUT_update(s)
        \/ \E rq \in MembersDeleteReqs : members_DELETE(s, rq)
        \/ members_DELETE_delete(s)
        \/ \E rq \in PlansGetReqs : plans_GET(s, rq)
        \/ plans_GET_list(s)
        \/ \E rq \in PlansPostReqs : plans_POST(s, rq)
        \/ plans_POST_insert(s)
        \/ \E rq \in PlanGetReqs : plan_GET(s, rq)
        \/ plan_GET_select(s)
        \/ \E rq \in PlanPutReqs : plan_PUT(s, rq)
        \/ plan_PUT_update(s)
        \/ \E rq \in PlanDeleteReqs : plan_DELETE(s, rq)
        \/ plan_DELETE_check(s)
        \/ plan_DELETE_delete(s)
        \/ \E rq \in TxGetReqs : tx_GET(s, rq)
        \/ tx_GET_list(s)
        \/ \E rq \in TxPostReqs : tx_POST(s, rq)
        \/ tx_POST_member(s)
        \/ tx_POST_plan(s)
        \/ tx_POST_insert(s)
        \/ \E rq \in TxidGetReqs : txid_GET(s, rq)
        \/ txid_GET_select(s)
        \/ \E rq \in TxidPutReqs : txid_PUT(s, rq)
        \/ txid_PUT_member(s)
        \/ txid_PUT_plan(s)
        \/ txid_PUT_update(s)
        \/ \E rq \in MeGetReqs : me_GET(s, rq)
        \/ me_GET_select(s)
        \/ \E rq \in MePagesReqs : me_pages(s, rq)
        \/ me_pages_select(s)
        \/ Reply(s)

Spec == Init /\ [][Next]_vars

(***************************************************************************)
(* The system with two requests under way at once: member POST and PUT,    *)
(* their store calls interleaved in any order.                             *)
(***************************************************************************)
ConcPostReqs ==
    {Request("members.POST", "POST", AdminQuery, NoAuth, SegMembers,
             MemberBody(Str(NameAl), Str(ph), Str(em), Undefined)) :
        ph \in {PhoneIntl, PhoneLocal}, em \in {EmailA, EmailB}}

ConcPutReqs ==
    {Request("members.PUT", "PUT", AdminQuery, NoAuth, id, b) :
        id \in MemberTexts,
        b \in {Json([email |-> Str(EmailA)]), Json([email |-> Str(EmailB)]),
               Json([phone |-> Str(PhoneIntl)]), Json([phone |-> Str(PhoneLocal)])}}

InitConc ==
    /\ members = <<>>
    /\ pricing_plans = <<>>
    /\ transactions = <<>>
    /\ inflight = [s \in Slots |-> Idle]

NextConc ==
    \E s \in Slots :
        \/ \E rq \in ConcPostReqs : members_POST(s, rq)
        \/ members_POST_insert(s)
        \/ \E rq \in ConcPutReqs : members_PUT(s, rq)
        \/ members_PUT_update(s)
        \/ Reply(s)

SpecConc == InitConc /\ [][NextConc]_vars

(***************************************************************************)
(* What the properties below read from a request in flight.                *)
(***************************************************************************)
Served(s) == inflight[s].pc = "done"

\* the request made a call on table tbl of the store
Queried(tr, tbl) == \E i \in DOMAIN tr : tr[i].k = "store" /\ tr[i].tbl = tbl

\* the request made a call on some table of the store
Called(tr) == \E t \in Tables : Queried(tr, t)

\* the store answered a call of the request on table tbl with code
Answered(tr, tbl, code) ==
    \E i \in DOMAIN tr : tr[i].k = "store" /\ tr[i].tbl = tbl /\ tr[i].code = code

ListEps == {"members.GET", "plans.GET", "tx.GET"}

(***************************************************************************)
(* C1: every list response (members, transactions, pricing plans) carries  *)
(* a pagination summary in which totalPages is the number ceil(total /     *)
(* limit), hasNext is page < totalPages and hasPrev is page > 1, whatever   *)
(* page and limit the query string gave.                                   *)
(***************************************************************************)
C1_PaginationSummary ==
    \A s \in Slots :
        (/\ Served(s)
         /\ inflight[s].req.ep \in ListEps
         /\ inflight[s].resp.status = 200
         /\ "pagination" \in DOMAIN inflight[s].resp.body)
        => LET p == inflight[s].resp.body.pagination
           IN  /\ p.limit.t = "num" /\ p.limit.n > 0
               /\ p.totalPages.t = "num"
               /\ p.totalPages.n * p.limit.n >= p.total.n
               /\ (p.totalPages.n - 1) * p.limit.n < p.total.n
               /\ p.hasNext = (p.page.n < p.totalPages.n)
               /\ p.hasPrev = (p.page.n > 1)

(***************************************************************************)
(* C2: an admin POST /api/pricing_plans with the body {name: "Gold",       *)
(* price: 0, duration_days: 30} is answered 400 with the error message     *)
(* "Price must be greater than 0", and makes no store call.                *)
(***************************************************************************)
C2_PriceZeroMessage ==
    \A s \in Slots :
        (/\ Served(s)
         /\ inflight[s].req.ep = "plans.POST"
         /\ validateApiKey(inflight[s].req)
         /\ inflight[s].req.body = PlanBody(Str(PlanGold), Num(0), Num(30)))
        => /\ inflight[s].resp = errorResponse("Price must be greater than 0", 400)
           /\ ~Called(inflight[s].trace)

(***************************************************************************)
(* C3: an admin DELETE /api/pricing_plans/:id of a plan that a member      *)
(* references through subscription_plan_id, whose usage check the store    *)
(* answers, is answered 409; whatever the store answers, the plan is still *)
(* in the store afterwards.                                                *)
(***************************************************************************)
C3_PlanInUseKept ==
    \A s \in Slots :
        (/\ Served(s)
         /\ inflight[s].req.ep = "plan.DELETE"
         /\ validateApiKey(inflight[s].req)
         /\ IsUUID(inflight[s].req.id)
         /\ \E i \in DOMAIN members :
                members[i].subscription_plan_id = ParseUuid(inflight[s].req.id))
        => /\ \E i \in DOMAIN pricing_plans :
                  pricing_plans[i].id = ParseUuid(inflight[s].req.id)
           /\ ~Queried(inflight[s].trace, "pricing_plans")
           /\ Answered(inflight[s].trace, "members", "ok")
                  => inflight[s].resp.status = 409

C3_Witness ==
    \E s \in Slots :
        /\ Served(s)
        /\ inflight[s].req.ep = "plan.DELETE"
        /\ inflight[s].resp.status = 409
        /\ \E i \in DOMAIN members :
               members[i].subscription_plan_id = ParseUuid(inflight[s].req.id)
        /\ \E i \in DOMAIN pricing_plans :
               pricing_plans[i].id = ParseUuid(inflight[s].req.id)

(***************************************************************************)
(* C4: GET /api/members/me whose bearer token is missing, malformed (empty *)
(* or not a signed token) or expired is answered 401 with a body that has  *)
(* an error message and nothing else, by the app-router handler and by the *)
(* pages-router handler alike, and the members table is not queried.       *)
(***************************************************************************)
BadBearer(h) == ~h.present \/ h.token.kind \in {"empty", "garbage"} \/ h.token.expired

C4_BadTokenUnauthorized ==
    \A s \in Slots :
        (/\ inflight[s].req.ep \in {"me.GET", "me.pages"}
         /\ inflight[s].req.method = "GET"
         /\ BadBearer(inflight[s].req.auth))
        => /\ Served(s)
           /\ inflight[s].resp.status = 401
           /\ DOMAIN inflight[s].resp.body = {"error"}
           /\ ~Queried(inflight[s].trace, "members")

C4_Witness ==
    /\ \E s \in Slots :
        /\ Served(s)
        /\ inflight[s].req.ep = "me.GET"
        /\ inflight[s].req.auth.present
        /\ inflight[s].req.auth.bearer
        /\ inflight[s].req.auth.token.kind = "jwt"
        /\ inflight[s].req.auth.token.expired
        /\ inflight[s].resp.status = 401
    /\ members # <<>>

(***************************************************************************)
(* C5: when the store answers the insert or update of a member POST or PUT *)
(* or of a pricing-plan POST or PUT with a uniqueness violation (23505),   *)
(* the request is answered 409 and that store call leaves the three tables *)
(* as they were.                                                           *)
(***************************************************************************)
UniqueEps == {"members.POST", "members.PUT", "plans.POST", "plan.PUT"}

C5_UniqueViolationConflict ==
    [][\A s \in Slots :
          (/\ inflight[s].pc # "done"
           /\ inflight'[s].pc = "done"
           /\ inflight'[s].req.ep \in UniqueEps
           /\ \E t \in Tables : Answered(inflight'[s].trace, t, "23505"))
          => /\ inflight'[s].resp.status = 409
             /\ store' = store]_vars

C5_Witness ==
    \E s \in Slots :
        /\ Served(s)
        /\ inflight[s].req.ep = "members.PUT"
        /\ Answered(inflight[s].trace, "members", "23505")
        /\ inflight[s].resp.status = 409
        /\ Len(members) = 2

(***************************************************************************)
(* C6: under any interleaving of member POSTs and PUTs no two members of   *)
(* the store share an email and no two share a phone; and of two member    *)
(* POSTs with the same email that were under way at the same time, both    *)
(* answered by the store, neither colliding with a member that is not      *)
(* theirs, one is answered 201 and the other 409.                          *)
(***************************************************************************)
\* a served member POST that the store answered, with a row or a 23505
PostAnswered(s) ==
    /\ Served(s)
    /\ inflight[s].req.ep = "members.POST"
    /\ \/ Answered(inflight[s].trace, "members", "ok")
       \/ Answered(inflight[s].trace, "members", "23505")

\* the two POSTs were under way at the same time: one made its insert while
\* the other was under way
Overlapped(s, t) == s \in inflight[t].seen \/ t \in inflight[s].seen

\* the members the two POSTs created
CreatedBy(s, t) ==
    {inflight[u].resp.body.data.id : u \in {v \in {s, t} : inflight[v].resp.status = 201}}

\* no member other than theirs has the email or a phone of the two POSTs
NoBystander(s, t) ==
    \A i \in DOMAIN members :
        members[i].id \notin CreatedBy(s, t)
        => /\ members[i].email # inflight[s].req.body.email
           /\ members[i].phone \notin {inflight[s].req.body.phone, inflight[t].req.body.phone}

C6_UniqueEmailPhone ==
    /\ \A i, j \in DOMAIN members :
           i # j => /\ members[i].email # members[j].email
                    /\ members[i].phone # members[j].phone
    /\ \A s, t \in Slots :
           (/\ s # t
            /\ PostAnswered(s) /\ PostAnswered(t)
            /\ inflight[s].req.body.email = inflight[t].req.body.email
            /\ Overlapped(s, t)
            /\ NoBystander(s, t))
           => {inflight[s].resp.status, inflight[t].resp.status} = {201, 409}

C6_Witness ==
    \E s, t \in Slots :
        /\ s # t
        /\ PostAnswered(s) /\ PostAnswered(t)
        /\ inflight[s].req.body.email = inflight[t].req.body.email
        /\ s \in inflight[t].seen
        /\ NoBystander(s, t)
        /\ inflight[s].resp.status = 201
        /\ inflight[t].resp.status = 409

(***************************************************************************)
(* C7: the phone check rejects "abc" and accepts "+1 555-123-4567".  An    *)
(* admin member POST or PUT whose phone is "abc" is answered 400 without a *)
(* store call, with the message 'Invalid phone format' when the rest of    *)
(* the request is valid; one whose phone is "+1 555-123-4567", the rest    *)
(* valid, goes on to the store.                                            *)
(***************************************************************************)
\* the rest of an admin member POST or PUT is valid: the id of a PUT, the
\* required fields of a POST, the email
RestValid(rq) ==
    /\ validateApiKey(rq)
    /\ rq.body # BadJson
    /\ IF rq.ep = "members.POST"
       THEN /\ \A f \in {"first_name", "last_name", "email"} : Truthy(Get(rq.body, f))
            /\ emailRegexTest(rq.body.email.s)
       ELSE /\ rq.id # <<>> /\ rq.id # SegMembers
            /\ Truthy(Get(rq.body, "email")) => emailRegexTest(rq.body.email.s)

C7_PhoneCheck ==
    /\ ~phoneRegexTest(PhoneAbc)
    /\ phoneRegexTest(PhoneIntl)
    /\ \A s \in Slots :
        (/\ inflight[s].req.ep \in {"members.POST", "members.PUT"}
         /\ validateApiKey(inflight[s].req)
         /\ inflight[s].req.body # BadJson)
        => LET rq == inflight[s].req
           IN  /\ Get(rq.body, "phone") = Str(PhoneAbc)
                   => /\ Served(s)
                      /\ inflight[s].resp.status = 400
                      /\ ~Called(inflight[s].trace)
                      /\ RestValid(rq)
                            => inflight[s].resp = errorResponse("Invalid phone format", 400)
               /\ (Get(rq.body, "phone") = Str(PhoneIntl) /\ RestValid(rq))
                   => \/ inflight[s].pc \in {"members.POST.insert", "members.PUT.update"}
                      \/ Served(s) /\ Queried(inflight[s].trace, "members")

C7_Witness ==
    \E s \in Slots :
        /\ Served(s)
        /\ inflight[s].req.ep = "members.PUT"
        /\ RestValid(inflight[s].req)
        /\ Get(inflight[s].req.body, "phone") = Str(PhoneAbc)
        /\ inflight[s].resp = errorResponse("Invalid phone format", 400)
        /\ members # <<>>

(***************************************************************************)
(* C8: GET /api/transactions/:id of a transaction the store returns is     *)
(* answered 200 with the transaction if and only if the api_key is the     *)
(* admin secret or the bearer token is valid and its memberId is the       *)
(* transaction's member_id; any other caller gets a body with no data.     *)
(***************************************************************************)
\* the transaction a request names
Named(rq) == CHOOSE r \in Rows("transactions") : r.id = ParseUuid(rq.id)

Entitled(rq) ==
    \/ QGet(rq.query, "api_key") = ADMIN_API_KEY
    \/ /\ rq.auth.present /\ rq.auth.bearer
       /\ rq.auth.token.kind = "jwt" /\ ~rq.auth.token.expired
       /\ rq.auth.token.sub = Named(rq).member_id

C8_OwnerOrAdmin ==
    \A s \in Slots :
        (/\ Served(s)
         /\ inflight[s].req.ep = "txid.GET"
         /\ Answered(inflight[s].trace, "transactions", "ok"))
        => LET rq == inflight[s].req
           IN  IF Entitled(rq)
               THEN inflight[s].resp = successResponse(Named(rq), 200)
               ELSE /\ inflight[s].resp.status # 200
                    /\ "data" \notin DOMAIN inflight[s].resp.body

C8_Witness ==
    \E s \in Slots :
        /\ Served(s)
        /\ inflight[s].req.ep = "txid.GET"
        /\ QGet(inflight[s].req.query, "api_key") # ADMIN_API_KEY
        /\ inflight[s].req.auth.present
        /\ inflight[s].resp.status = 200
        /\ inflight[s].resp.body.data.member_id = inflight[s].req.auth.token.sub

(***************************************************************************)
(* C9: a request whose credential is missing or invalid is answered 401;   *)
(* in particular GET /api/transactions/:id of an existing transaction with *)
(* neither the admin api_key nor a valid bearer token is answered 401.     *)
(***************************************************************************)
C9_NoCredential401 ==
    \A s \in Slots :
        (/\ Served(s)
         /\ inflight[s].req.ep = "txid.GET"
         /\ Answered(inflight[s].trace, "transactions", "ok")
         /\ ~validateApiKey(inflight[s].req)
         /\ validateMemberToken(inflight[s].req) = NoId)
        => inflight[s].resp.status = 401

(***************************************************************************)
(* C10: on every member endpoint, on the transaction list, POST and PUT    *)
(* and on pricing-plan POST, PUT and DELETE, a request is answered 401     *)
(* exactly when its api_key is not the admin secret, and then it makes no  *)
(* store call; the two pricing-plan GETs never ask for a credential.       *)
(***************************************************************************)
AdminEps ==
    {"members.GET", "members.POST", "members.PUT", "members.DELETE",
     "tx.GET", "tx.POST", "txid.PUT", "plans.POST", "plan.PUT", "plan.DELETE"}

C10_AdminKeyExact ==
    \A s \in Slots :
        /\ inflight[s].req.ep \in AdminEps
            => IF QGet(inflight[s].req.query, "api_key") = ADMIN_API_KEY
               THEN /\ inflight[s].resp.status # 401
                    /\ inflight[s].trace[1] = AuthEv(TRUE)
               ELSE /\ Served(s)
                    /\ inflight[s].resp.status = 401
                    /\ ~Called(inflight[s].trace)
        /\ inflight[s].req.ep \in {"plans.GET", "plan.GET"}
            => /\ QGet(inflight[s].req.query, "api_key") = Null
               /\ inflight[s].resp.status # 401
               /\ \A i \in DOMAIN inflight[s].trace : inflight[s].trace[i].k # "auth"

C10_Witness ==
    \E s \in Slots :
        /\ Served(s)
        /\ inflight[s].req.ep = "plan.DELETE"
        /\ QGet(inflight[s].req.query, "api_key") = Str(<<"k">>)
        /\ inflight[s].resp.status = 401
        /\ pricing_plans # <<>>

(***************************************************************************)
(* C11: in every request to a handler that asks for a credential, the      *)
(* credential is checked before anything else: no validation check is made *)
(* and no table of the store is queried before the authorization event,    *)
(* GET /api/transactions/:id included.                                     *)
(***************************************************************************)
CredentialEps == AdminEps \cup {"txid.GET", "me.GET", "me.pages"}

C11_AuthorizationFirst ==
    \A s \in Slots :
        inflight[s].req.ep \in CredentialEps
        => \A i \in DOMAIN inflight[s].trace :
               (\/ inflight[s].trace[i].k = "check"
                \/ /\ inflight[s].trace[i].k = "store"
                   /\ inflight[s].trace[i].tbl \in Tables)
               => \E j \in 1..(i - 1) : inflight[s].trace[j].k = "auth"

(***************************************************************************)
(* C12: a create request that breaks several validation rules at once (a   *)
(* member POST whose email and phone are both malformed, a plan POST whose *)
(* price and duration_days are both negative) is answered by one 400 that  *)
(* names every offending field.                                            *)
(***************************************************************************)
\* the fields a 400 response names: those of its `missing` list, or the one
\* its message is about
NamedFields(resp) ==
    IF "missing" \in DOMAIN resp.body
    THEN {resp.body.missing[i] : i \in DOMAIN resp.body.missing}
    ELSE CASE resp.body.error = "Invalid email format" -> {"email"}
           [] resp.body.error = "Invalid phone format" -> {"phone"}
           [] resp.body.error = "Price must be greater than 0" -> {"price"}
           [] resp.body.error = "Duration days must be greater than 0" -> {"duration_days"}
           [] OTHER -> {}

C12_AllViolationsListed ==
    \A s \in Slots :
        (Served(s) /\ validateApiKey(inflight[s].req))
        => /\ (/\ inflight[s].req.ep = "members.POST"
               /\ inflight[s].req.body
                      = MemberBody(Str(NameAl), Str(PhoneAbc), Str(EmailBad), Undefined))
              => /\ inflight[s].resp.status = 400
                 /\ {"email", "phone"} \subseteq NamedFields(inflight[s].resp)
           /\ (/\ inflight[s].req.ep = "plans.POST"
               /\ inflight[s].req.body = PlanBody(Str(PlanGold), Num(0 - 1), Num(0 - 1)))
              => /\ inflight[s].resp.status = 400
                 /\ {"price", "duration_days"} \subseteq NamedFields(inflight[s].resp)

(***************************************************************************)
(* C13: every stored plan has price > 0 and duration_days > 0 and every    *)
(* stored transaction has amount > 0, whatever plan and transaction POSTs  *)
(* and PUTs were made; a request whose price, duration_days or amount is   *)
(* 0, negative or null is answered 400 and makes no store call.            *)
(***************************************************************************)
Positive(v) == v.t = "num" /\ v.n > 0

\* the amounts of an endpoint's body
AmountFields(ep) ==
    IF ep \in {"plans.POST", "plan.PUT"} THEN {"price", "duration_days"}
    ELSE IF ep \in {"tx.POST", "txid.PUT"} THEN {"amount"}
    ELSE {}

\* the body is parsed and gives one of its amounts as 0, negative or null
CarriesNonPositive(rq) ==
    /\ rq.body \notin {NoBody, BadJson}
    /\ \E f \in AmountFields(rq.ep) \cap DOMAIN rq.body :
           \/ rq.body[f] = Null
           \/ rq.body[f].t = "num" /\ rq.body[f].n <= 0

C13_AmountsStayPositive ==
    /\ \A i \in DOMAIN pricing_plans :
           Positive(pricing_plans[i].price) /\ Positive(pricing_plans[i].duration_days)
    /\ \A i \in DOMAIN transactions : Positive(transactions[i].amount)
    /\ \A s \in Slots :
           (/\ Served(s)
            /\ validateApiKey(inflight[s].req)
            /\ CarriesNonPositive(inflight[s].req))
           => /\ inflight[s].resp.status = 400
              /\ ~Called(inflight[s].trace)

\* a plan and a transaction are stored and an update of the plan to a
\* negative price has been refused
C13_Witness ==
    /\ pricing_plans # <<>>
    /\ transactions # <<>>
    /\ \E s \in Slots :
           /\ Served(s)
           /\ inflight[s].req.ep = "plan.PUT"
           /\ inflight[s].req.id = UuidText(pricing_plans[1].id)
           /\ inflight[s].req.body = Json([price |-> Num(0 - 1)])
           /\ inflight[s].resp.status = 400

(***************************************************************************)
(* C14: every handler that takes an :id (GET, PUT and DELETE of a member,  *)
(* a plan, a transaction) answers an id that is not a canonical UUID with  *)
(* 400 and makes no store call.                                            *)
(***************************************************************************)
IdEps ==
    {"members.GET", "members.PUT", "members.DELETE", "plan.GET", "plan.PUT",
     "plan.DELETE", "txid.GET", "txid.PUT"}

\* the last path segment is an :id, not the collection's own name, and the
\* request is not stopped for its credential
GivesId(rq) ==
    /\ rq.ep \in IdEps
    /\ rq.id \notin {<<>>, SegMembers}
    /\ rq.ep \in AdminEps => validateApiKey(rq)

C14_MalformedIdRejected ==
    \A s \in Slots :
        (Served(s) /\ GivesId(inflight[s].req) /\ ~IsUUID(inflight[s].req.id))
        => /\ inflight[s].resp.status = 400
           /\ ~Called(inflight[s].trace)

(***************************************************************************)
(* C15: when the store answers the single-record read or update of a       *)
(* member, a plan, a transaction or the caller's own profile (in either    *)
(* implementation of /api/members/me) with 'no row' (PGRST116), the        *)
(* response is 404 with a body {error}, never 200 or 500.                  *)
(***************************************************************************)
SingleEps ==
    {"members.GET", "members.PUT", "plan.GET", "plan.PUT", "txid.GET", "txid.PUT",
     "me.GET", "me.pages"}

C15_NoRowIsNotFound ==
    \A s \in Slots :
        (/\ Served(s)
         /\ inflight[s].req.ep \in SingleEps
         /\ \E t \in Tables : Answered(inflight[s].trace, t, "PGRST116"))
        => /\ inflight[s].resp.status = 404
           /\ DOMAIN inflight[s].resp.body = {"error"}

(***************************************************************************)
(* C16: when a store call of a request fails with an unanticipated error,  *)
(* the response carries a fixed message that is not the store's own error  *)
(* text, and the request makes no further store call (the failed call is   *)
(* not issued again).                                                      *)
(***************************************************************************)
C16_GenericMessageNoRetry ==
    \A s \in Slots :
        Served(s)
        => \A i \in DOMAIN inflight[s].trace :
               (/\ inflight[s].trace[i].k = "store"
                /\ inflight[s].trace[i].tbl \in Tables
                /\ inflight[s].trace[i].code = "ERR")
               => /\ "error" \in DOMAIN inflight[s].resp.body
                  /\ inflight[s].resp.body.error # ErrorMessage("ERR")
                  /\ \A j \in DOMAIN inflight[s].trace :
                         j > i => inflight[s].trace[j].k # "store"

(***************************************************************************)
(* C17: every request that ends in a failure response (400, 401, 403, 404, *)
(* 409 or 500) has logged the failure on the server before the response is *)
(* returned.                                                               *)
(***************************************************************************)
FailureStatuses == {400, 401, 403, 404, 409, 500}

C17_FailuresLogged ==
    \A s \in Slots :
        (Served(s) /\ inflight[s].resp.status \in FailureStatuses)
        => \E i \in DOMAIN inflight[s].trace : inflight[s].trace[i] = LogEv

(***************************************************************************)
(* C18: a list request with page p and limit l >= 1 returns the records at *)
(* positions (p-1)*l .. (p-1)*l + l - 1 of the filtered, sorted records:   *)
(* at most l of them, as many as those positions hold, and, the store      *)
(* being the same, none of them is also returned on another page of        *)
(* 1..totalPages.                                                          *)
(***************************************************************************)
\* the answers of the store to a list request that is not stopped by a fault
ListAnswers(ep, q) ==
    CASE ep = "members.GET" -> members_GET_query(q, FALSE)
      [] ep = "plans.GET" -> plans_GET_query(q, FALSE)
      [] ep = "tx.GET" -> tx_GET_query(q, FALSE)

\* how many of the positions off .. off + l - 1 exist among n records
Held(off, l, n) == IF off >= n THEN 0 ELSE Min(l, n - off)

C18_PagesPartition ==
    \A s \in Slots :
        (/\ Served(s)
         /\ inflight[s].req.ep \in ListEps
         /\ inflight[s].resp.status = 200
         /\ "pagination" \in DOMAIN inflight[s].resp.body)
        => LET rq == inflight[s].req
               pg == inflight[s].resp.body.pagination
               data == inflight[s].resp.body.data
           IN  (/\ pg.page.t = "num" /\ pg.page.n >= 1
                /\ pg.limit.t = "num" /\ pg.limit.n >= 1)
               => /\ Len(data) <= pg.limit.n
                  /\ Len(data) = Held((pg.page.n - 1) * pg.limit.n, pg.limit.n, pg.total.n)
                  /\ \A pt \in {Str(<<"1">>), Str(<<"2">>)} :
                         LET q2 == [rq.query EXCEPT !.page = pt]
                             p2 == IntParam(q2, "page", <<"1">>)
                         IN  (/\ p2.n # pg.page.n
                              /\ p2.n <= pg.totalPages.n
                              /\ pg.page.n <= pg.totalPages.n)
                             => \A a \in ListAnswers(rq.ep, q2) :
                                    a.code = "ok"
                                    => \A i \in DOMAIN a.rows, j \in DOMAIN data :
                                           a.rows[i] # data[j]

(***************************************************************************)
(* C19: whatever transaction POSTs and PUTs were made, every stored        *)
(* transaction has a status among pending, completed, failed, cancelled;   *)
(* a POST whose body gives no status creates a 'pending' transaction.      *)
(***************************************************************************)
TxStatuses ==
    {Str(<<"p", "e", "n", "d", "i", "n", "g">>),
     Str(<<"c", "o", "m", "p", "l", "e", "t", "e", "d">>),
     Str(<<"f", "a", "i", "l", "e", "d">>),
     Str(<<"c", "a", "n", "c", "e", "l", "l", "e", "d">>)}

C19_StatusInEnum ==
    /\ \A i \in DOMAIN transactions : transactions[i].status \in TxStatuses
    /\ \A s \in Slots :
           (/\ Served(s)
            /\ inflight[s].req.ep = "tx.POST"
            /\ inflight[s].resp.status = 201
            /\ "status" \notin DOMAIN inflight[s].req.body)
           => inflight[s].resp.body.data.status = Str(<<"p", "e", "n", "d", "i", "n", "g">>)

(***************************************************************************)
(* C20: a transaction POST or PUT that passes validation and whose         *)
(* member_id names no existing member, or whose plan_id is given and names *)
(* no existing plan, is answered 404 ('Member not found' / 'Pricing plan   *)
(* not found') and makes no call on the transactions table; the member is  *)
(* checked before the plan.                                                *)
(***************************************************************************)
TxWriteEps == {"tx.POST", "txid.PUT"}

\* the request reaches the existence checks
PassesValidation(rq) ==
    /\ rq.ep \in TxWriteEps
    /\ validateApiKey(rq)
    /\ rq.body \notin {NoBody, BadJson}
    /\ ~CarriesNonPositive(rq)
    /\ rq.ep = "tx.POST" => MissingFields(TxRequired, rq.body) = <<>>
    /\ rq.ep = "txid.PUT" => IsUUID(rq.id)

\* the body gives field f, and no row of tbl has the id it gives
NamesNone(rq, f, tbl) ==
    /\ f \in DOMAIN rq.body
    /\ rq.body[f].t = "str" /\ rq.body[f].s # <<>>
    /\ \A r \in Rows(tbl) : r.id # ParseUuid(rq.body[f].s)

C20_MissingReferenceNotFound ==
    \A s \in Slots :
        (Served(s) /\ PassesValidation(inflight[s].req))
        => LET rq == inflight[s].req
               tr == inflight[s].trace
               noMember == NamesNone(rq, "member_id", "members")
               noPlan == NamesNone(rq, "plan_id", "pricing_plans")
           IN  /\ (noMember \/ noPlan)
                  => /\ inflight[s].resp.status = 404
                     /\ ~Queried(tr, "transactions")
               /\ noMember
                  => /\ inflight[s].resp = errorResponse("Member not found", 404)
                     /\ ~Queried(tr, "pricing_plans")
               /\ (noPlan /\ ~noMember /\ ~Answered(tr, "members", "ERR"))
                  => inflight[s].resp = errorResponse("Pricing plan not found", 404)

\* a POST naming an existing member and a plan that does not exist has been
\* answered 'Pricing plan not found'
C20_Witness ==
    \E s \in Slots :
        /\ Served(s)
        /\ inflight[s].req.ep = "tx.POST"
        /\ PassesValidation(inflight[s].req)
        /\ ~NamesNone(inflight[s].req, "member_id", "members")
        /\ NamesNone(inflight[s].req, "plan_id", "pricing_plans")
        /\ Answered(inflight[s].trace, "members", "ok")
        /\ inflight[s].resp = errorResponse("Pricing plan not found", 404)

(***************************************************************************)
(* /auth/callback: GET (the redirect after the provider's sign-in) and     *)
(* POST (the exchange for a program).  A URL is an origin, a path and its  *)
(* query parameters.                                                       *)
(***************************************************************************)
\* a ?? b
Nullish(a, b) == IF a.t \in {"null", "undefined"} THEN b ELSE a

Scheme == <<"h", "t", "t", "p", "s", ":">>
SlashSlash == <<"/", "/">>
RequestOrigin == <<"h", "t", "t", "p", "s", ":", "/", "/", "g">>
DashboardPath == <<"/", "d", "a", "s", "h", "b", "o", "a", "r", "d">>
LoginPath == <<"/", "l", "o", "g", "i", "n">>

\* where the host of `rest` ends: at its first "/", or at its end
HostLen(rest) ==
    IF \E i \in DOMAIN rest : rest[i] = "/"
    THEN (CHOOSE i \in DOMAIN rest : rest[i] = "/" /\ \A j \in 1..(i - 1) : rest[j] # "/") - 1
    ELSE Len(rest)

NoParams == [n \in {} |-> Null]
InvalidUrl == [invalid |-> TRUE]

\* scheme//host/path
UrlOfHost(scheme, rest) ==
    IF HostLen(rest) = 0 THEN InvalidUrl
    ELSE [origin |-> scheme \o SlashSlash \o SubSeq(rest, 1, HostLen(rest)),
          pathname |-> IF HostLen(rest) = Len(rest) THEN <<"/">>
                       ELSE SubSeq(rest, HostLen(rest) + 1, Len(rest)),
          params |-> NoParams]

\* new URL(text, base): an absolute URL keeps its own origin, a
\* protocol-relative one takes the scheme of the base, a path takes its origin;
\* a URL without a host throws
URL_SameOrigin(text, base) ==
    [origin |-> base, pathname |-> text, params |-> NoParams]
URL(text, base) ==
    IF IsPrefix(Scheme \o SlashSlash, text)
    THEN UrlOfHost(Scheme, SubSeq(text, Len(Scheme) + 3, Len(text)))
    ELSE IF IsPrefix(SlashSlash, text)
    THEN UrlOfHost(SubSeq(base, 1, Len(Scheme)), SubSeq(text, 3, Len(text)))
    ELSE IF IsPrefix(<<"/">>, text)
    THEN [origin |-> base, pathname |-> text, params |-> NoParams]
    ELSE [origin |-> base, pathname |-> <<"/">> \o text, params |-> NoParams]

\* url.searchParams.set(name, value)
SetParam(url, name, value) ==
    [url EXCEPT !.params =
        [n \in DOMAIN url.params \cup {name} |-> IF n = name THEN value ELSE url.params[n]]]

\* NextResponse.redirect(url)
redirect(url) == [status |-> 307, body |-> <<>>, location |-> url]

\* the /login URL with its error and description
loginUrl(error, description) ==
    LET u == SetParam(URL(LoginPath, RequestOrigin), "error", error)
    IN  IF Truthy(description) \/ description.t = "lit"
        THEN SetParam(u, "error_description", description)
        ELSE u

CodeGood == <<"c", "1">>
CodeBad == <<"c", "0">>

\* supabase.auth.exchangeCodeForSession(code): a session with its user, a
\* session without one, an error, or an exception; only a code the provider
\* issued can be exchanged
ExchangeOutcomes(code) ==
    IF code = Str(CodeGood) THEN {"user", "nouser", "error", "throw"}
    ELSE {"error", "throw"}

ExchangeEv(outcome) ==
    StoreEv("auth", "exchange",
            CASE outcome = "user" -> "ok"
              [] outcome = "nouser" -> "nouser"
              [] outcome = "error" -> "ERR"
              [] outcome = "throw" -> "THROW")

missingCodeRedirect ==
    redirect(loginUrl(Lit("missing_code"), Lit("No authorization code found")))

\* GET up to the exchange: the provider's error, the code
callback_GET(s, rq) ==
    /\ Free(s) /\ rq.ep = "callback.GET"
    /\ UNCHANGED store
    /\ IF Truthy(QGet(rq.query, "error"))
       THEN Done(s, rq, <<CheckEv("error", FALSE), LogEv>>,
                 redirect(loginUrl(QGet(rq.query, "error"),
                                   QGet(rq.query, "error_description"))))
       ELSE IF Truthy(QGet(rq.query, "code"))
       THEN Wait(s, rq, <<CheckEv("error", TRUE), CheckEv("code", TRUE)>>,
                 "callback.GET.exchange", Null)
       ELSE Done(s, rq, <<CheckEv("error", TRUE), CheckEv("code", FALSE), LogEv>>,
                 missingCodeRedirect)

\* the exchange and the redirect that follows it
callback_GET_exchange(s) ==
    /\ inflight[s].pc = "callback.GET.exchange"
    /\ UNCHANGED store
    /\ \E o \in ExchangeOutcomes(QGet(inflight[s].req.query, "code")) :
        LET rq == inflight[s].req
            next == Nullish(QGet(rq.query, "next"), Str(DashboardPath))
            tr == inflight[s].trace \o <<ExchangeEv(o)>>
            unexpected ==
                redirect(loginUrl(Lit("unexpected_error"),
                                  Lit("An unexpected error occurred during authentication")))
        IN  IF o = "throw" THEN Done(s, rq, tr \o <<LogEv>>, unexpected)
            ELSE IF o = "error"
            THEN Done(s, rq, tr \o <<LogEv>>,
                      redirect(loginUrl(Lit("auth_error"), Lit("exchange error"))))
            ELSE IF o = "user"
            THEN IF URL(next.s, RequestOrigin) = InvalidUrl
                 THEN Done(s, rq, tr \o <<LogEv>>, unexpected)
                 ELSE Done(s, rq, tr,
                           redirect(SetParam(URL(next.s, RequestOrigin), "auth",
                                             Lit("success"))))
            ELSE Done(s, rq, tr \o <<LogEv>>, missingCodeRedirect)

\* const { code, next = '/dashboard' } = body
NextOfBody_Dashboard(body) == Str(DashboardPath)
NextOfBody(body) ==
    IF Get(body, "next") = Undefined THEN Str(DashboardPath) ELSE body.next

\* POST up to the exchange: the body, the code
callback_POST(s, rq) ==
    /\ Free(s) /\ rq.ep = "callback.POST"
    /\ UNCHANGED store
    /\ IF rq.body = BadJson THEN Caught(s, rq, <<>>)
       ELSE IF ~Truthy(Get(rq.body, "code"))
       THEN Done(s, rq, <<CheckEv("code", FALSE)>>,
                 errorResponse("Authorization code is required", 400))
       ELSE Wait(s, rq, <<CheckEv("code", TRUE)>>, "callback.POST.exchange", Null)

\* the exchange and the response that follows it
callback_POST_exchange(s) ==
    /\ inflight[s].pc = "callback.POST.exchange"
    /\ UNCHANGED store
    /\ \E o \in ExchangeOutcomes(inflight[s].req.body.code) :
        LET rq == inflight[s].req
            tr == inflight[s].trace \o <<ExchangeEv(o)>>
        IN  IF o = "throw" THEN Caught(s, rq, tr)
            ELSE IF o = "error" THEN Done(s, rq, tr, errorResponse("exchange error", 400))
            ELSE Done(s, rq, tr,
                      [status |-> 200,
                       body |-> [success |-> TRUE,
                                 user |-> IF o = "user" THEN Lit("user") ELSE Null,
                                 redirect |-> NextOfBody(rq.body)]])

\* the callbacks the provider and the programs send
CallbackQuery(code, next, error, description) ==
    [code |-> code, next |-> next, error |-> error, error_description |-> description]

ErrorDenied == <<"d", "e", "n", "i", "e", "d">>
NextTexts ==
    {Null, Str(<<"/", "m">>), Str(<<"m">>), Str(<<"h", "t", "t", "p", "s", ":", "/", "/", "e", "/", "x">>), Str(<<"/", "/", "e">>),
     Str(<<"h", "t", "t", "p", "s", ":", "/", "/">>)}

CallbackGetReqs ==
    {Request("callback.GET", "GET", CallbackQuery(code, next, error, desc), NoAuth, <<>>,
             NoBody) :
        code \in {Null, Str(<<>>), Str(CodeGood), Str(CodeBad)},
        next \in NextTexts,
        error \in {Null, Str(ErrorDenied)},
        desc \in {Null, Str(<<"n", "o">>)}}

CallbackPostReqs ==
    {Request("callback.POST", "POST", Query(Null, Null, Null), NoAuth, <<>>, b) :
        b \in {Json([code |-> code, next |-> next]) :
                  code \in {Undefined, Null, Str(<<>>), Str(CodeGood), Str(CodeBad)},
                  next \in {Undefined, Null, Str(<<"/", "m">>)}}
              \cup {BadJson}}

InitAuth ==
    /\ members = <<>>
    /\ pricing_plans = <<>>
    /\ transactions = <<>>
    /\ inflight = [s \in Slots |-> IF s = 1 THEN Idle ELSE Off]

NextAuth ==
    \E s \in Slots :
        \/ \E rq \in CallbackGetReqs : callback_GET(s, rq)
        \/ callback_GET_exchange(s)
        \/ \E rq \in CallbackPostReqs : callback_POST(s, rq)
        \/ callback_POST_exchange(s)
        \/ Reply(s)

SpecAuth == InitAuth /\ [][NextAuth]_vars

(***************************************************************************)
(* C21: every GET /auth/callback ends in one redirect.  It goes to the     *)
(* next-page URL (default /dashboard) with auth=success exactly when no    *)
(* error parameter is given, a code is given, the exchange succeeds with a *)
(* user and nothing is thrown; otherwise it goes to /login with an error   *)
(* that names the cause: the provider's error, missing_code when no code   *)
(* was given (and only then), unexpected_error for an exception,           *)
(* auth_error for a failed exchange.                                       *)
(***************************************************************************)
Exchanged(tr, code) == \E i \in DOMAIN tr : tr[i] = StoreEv("auth", "exchange", code)

NextOf(rq) == Nullish(QGet(rq.query, "next"), Str(DashboardPath))

\* an exception was thrown: by the exchange, or by the URL of the next page
Threw(rq, tr) ==
    \/ Exchanged(tr, "THROW")
    \/ Exchanged(tr, "ok") /\ URL(NextOf(rq).s, RequestOrigin) = InvalidUrl

IsSuccessRedirect(rq, resp) ==
    /\ resp.location # InvalidUrl
    /\ resp.location = SetParam(URL(NextOf(rq).s, RequestOrigin), "auth", Lit("success"))

IsLoginRedirect(resp) ==
    /\ resp.location.origin = RequestOrigin
    /\ resp.location.pathname = LoginPath
    /\ "error" \in DOMAIN resp.location.params

C21_CallbackRedirect ==
    \A s \in Slots :
        (Served(s) /\ inflight[s].req.ep = "callback.GET")
        => LET rq == inflight[s].req
               tr == inflight[s].trace
               resp == inflight[s].resp
               error == QGet(rq.query, "error")
               code == QGet(rq.query, "code")
           IN  /\ resp.status = 307
               /\ IsSuccessRedirect(rq, resp)
                      <=> (/\ ~Truthy(error) /\ Truthy(code)
                           /\ Exchanged(tr, "ok") /\ ~Threw(rq, tr))
               /\ ~IsSuccessRedirect(rq, resp)
                      => /\ IsLoginRedirect(resp)
                         /\ Truthy(error) => resp.location.params.error = error
                         /\ resp.location.params.error = Lit("missing_code")
                                <=> (~Truthy(error) /\ ~Truthy(code))
                         /\ (~Truthy(error) /\ Threw(rq, tr))
                                => resp.location.params.error = Lit("unexpected_error")
                         /\ (~Truthy(error) /\ Exchanged(tr, "ERR"))
                                => resp.location.params.error = Lit("auth_error")

(***************************************************************************)
(* C22: POST /auth/callback answers 400 'Authorization code is required'   *)
(* without an exchange when the body gives no code, 400 when the exchange  *)
(* fails, 200 with success = true, the user and redirect = the body's next *)
(* ('/dashboard' when the body has none) when it succeeds, and 500 when    *)
(* the body cannot be parsed.                                              *)
(***************************************************************************)
C22_CallbackPost ==
    \A s \in Slots :
        (Served(s) /\ inflight[s].req.ep = "callback.POST")
        => LET rq == inflight[s].req
               tr == inflight[s].trace
               resp == inflight[s].resp
           IN  /\ rq.body = BadJson => resp.status = 500
               /\ (rq.body # BadJson /\ ~Truthy(Get(rq.body, "code")))
                      => /\ resp = errorResponse("Authorization code is required", 400)
                         /\ \A i \in DOMAIN tr : tr[i].k # "store"
               /\ Exchanged(tr, "ERR") => resp.status = 400
               /\ (Exchanged(tr, "ok") \/ Exchanged(tr, "nouser"))
                      => /\ resp.status = 200
                         /\ resp.body.success = TRUE
                         /\ "user" \in DOMAIN resp.body
                         /\ resp.body.redirect
                                = IF "next" \in DOMAIN rq.body THEN rq.body.next
                                  ELSE Str(DashboardPath)

\* an exchange that succeeded for a body that names its own next page
C22_Witness ==
    \E s \in Slots :
        /\ Served(s)
        /\ inflight[s].req.ep = "callback.POST"
        /\ Exchanged(inflight[s].trace, "ok")
        /\ inflight[s].req.body # BadJson
        /\ Get(inflight[s].req.body, "next") = Str(<<"/", "m">>)
        /\ inflight[s].resp.status = 200
        /\ inflight[s].resp.body.redirect = Str(<<"/", "m">>)

(***************************************************************************)
(* C30: every redirect of GET /auth/callback goes to the origin of the     *)
(* request, whatever the next parameter is: a path, an absolute URL or a   *)
(* protocol-relative URL.                                                  *)
(***************************************************************************)
C30_RedirectSameOrigin ==
    \A s \in Slots :
        (Served(s) /\ inflight[s].req.ep = "callback.GET")
        => inflight[s].resp.location.origin = RequestOrigin

(***************************************************************************)
(* The lists with their date filters, one request at a time: members with  *)
(* and without an expiry date, transactions of several dates.              *)
(***************************************************************************)
With(body, f, v) == [g \in DOMAIN body \cup {f} |-> IF g = f THEN v ELSE body[g]]

DatedMemberBodies ==
    {With(MemberBody(Str(NameAl), Str(PhoneIntl), Str(EmailA), Undefined),
          "subscription_expiry_date", Str(d)) : d \in {DateJan1, DateFeb1, DateMar1}}
    \cup {MemberBody(Str(NameAl), Str(PhoneIntl), Str(EmailA), Undefined)}
    \cup {With(MemberBody(Str(NameAl), Str(PhoneLocal), Str(EmailB), Undefined),
               "subscription_expiry_date", Str(d)) : d \in {DateJan1, DateMar1}}

DatedTxBodies ==
    {With(TxBody(Str(UuidText(MemberIdPool[1])), Undefined, Num(5)),
          "transaction_date", Str(d)) : d \in {DateJan1, DateFeb1, DateMar1}}

MethodCash == <<"c", "a", "s", "h">>

DatedTxQueries ==
    {[api_key |-> ADMIN_API_KEY, date_from |-> from, date_to |-> to, payment_method |-> pm] :
        from \in {Null, Str(DateFeb1)}, to \in {Null, Str(DateFeb1)},
        pm \in {Null, Str(MethodCard), Str(MethodCash)}}
    \cup {[api_key |-> ADMIN_API_KEY, date_from |-> Str(DateJan1), date_to |-> Str(DateMar1)]}

ActiveOnlyTexts ==
    {Null, Str(<<"t", "r", "u", "e">>), Str(<<"f", "a", "l", "s", "e">>), Str(<<"1">>)}

DatedMemberQueries == {[api_key |-> ADMIN_API_KEY, active_only |-> a] : a \in ActiveOnlyTexts}

InitDates ==
    /\ members = <<>>
    /\ pricing_plans = <<>>
    /\ transactions = <<>>
    /\ inflight = [s \in Slots |-> IF s = 1 THEN Idle ELSE Off]

NextDates ==
    \E s \in Slots :
        \/ \E b \in DatedMemberBodies :
               members_POST(s, Request("members.POST", "POST", AdminQuery, NoAuth,
                                       SegMembers, b))
        \/ members_POST_insert(s)
        \/ \E b \in DatedTxBodies :
               tx_POST(s, Request("tx.POST", "POST", AdminQuery, NoAuth, <<>>, b))
        \/ tx_POST_member(s)
        \/ tx_POST_insert(s)
        \/ \E q \in DatedMemberQueries :
               members_GET(s, Request("members.GET", "GET", q, NoAuth, SegMembers, NoBody))
        \/ members_GET_list(s)
        \/ \E q \in DatedTxQueries :
               tx_GET(s, Request("tx.GET", "GET", q, NoAuth, <<>>, NoBody))
        \/ tx_GET_list(s)
        \/ Reply(s)

SpecDates == InitDates /\ [][NextDates]_vars

(***************************************************************************)
(* C23: GET /api/transactions with date_from and/or date_to returns        *)
(* exactly the transactions with date_from <= transaction_date <= date_to  *)
(* that also equal every member_id, plan_id, status and payment_method     *)
(* given; GET /api/members with active_only=true returns exactly the       *)
(* members whose subscription_expiry_date is today or later, and any other *)
(* active_only applies no filter.                                          *)
(***************************************************************************)
Elements(seq) == {seq[i] : i \in DOMAIN seq}

Given(q, name) == QGet(q, name) # Null /\ QGet(q, name).s # <<>>

TxWanted(q, r) ==
    /\ Given(q, "date_from") => DateNum(q.date_from.s) <= DateNum(r.transaction_date.s)
    /\ Given(q, "date_to") => DateNum(r.transaction_date.s) <= DateNum(q.date_to.s)
    /\ Given(q, "member_id") => r.member_id = ParseUuid(q.member_id.s)
    /\ Given(q, "plan_id") => r.plan_id = ParseUuid(q.plan_id.s)
    /\ Given(q, "status") => r.status = q.status
    /\ Given(q, "payment_method") => r.payment_method = q.payment_method

MemberWanted(q, r) ==
    QGet(q, "active_only") = Str(<<"t", "r", "u", "e">>)
    => /\ r.subscription_expiry_date # Null
       /\ DateNum(r.subscription_expiry_date.s) >= DateNum(Today)

C23_FiltersExact ==
    \A s \in Slots :
        (Served(s) /\ inflight[s].resp.status = 200)
        => /\ inflight[s].req.ep = "tx.GET"
              => Elements(inflight[s].resp.body.data)
                     = {r \in Rows("transactions") : TxWanted(inflight[s].req.query, r)}
           /\ inflight[s].req.ep = "members.GET"
              => Elements(inflight[s].resp.body.data)
                     = {r \in Rows("members") : MemberWanted(inflight[s].req.query, r)}

\* both bounds are met with equality, and an expired member is left out
C23_Witness ==
    /\ \E s \in Slots :
           /\ Served(s)
           /\ inflight[s].req.ep = "tx.GET"
           /\ QGet(inflight[s].req.query, "date_from") = Str(DateFeb1)
           /\ QGet(inflight[s].req.query, "date_to") = Str(DateFeb1)
           /\ QGet(inflight[s].req.query, "payment_method") = Str(MethodCard)
           /\ inflight[s].resp.status = 200
           /\ Len(inflight[s].resp.body.data) = 1
    /\ \E r \in Rows("members") : r.subscription_expiry_date = Str(DateJan1)

(***************************************************************************)
(* /api/members/stats while members are created, updated and deleted: the  *)
(* statistics are asked for in one slot, the members change in the other.  *)
(***************************************************************************)
StatsReqs == {Request("members.GET", "GET", AdminQuery, NoAuth, SegStats, NoBody)}

StatsPostReqs ==
    {Request("members.POST", "POST", AdminQuery, NoAuth, SegMembers, b) :
        b \in {With(MemberBody(Str(NameAl), Str(PhoneIntl), Str(EmailA), Undefined),
                    "subscription_expiry_date", Str(DateMar1)),
               With(MemberBody(Str(NameAl), Str(PhoneLocal), Str(EmailB), Undefined),
                    "subscription_expiry_date", Str(DateJan1))}}

StatsPutReqs ==
    {Request("members.PUT", "PUT", AdminQuery, NoAuth, UuidText(MemberIdPool[1]),
             Json([subscription_expiry_date |-> Str(d)])) : d \in {DateJan1, DateMar1}}

StatsDeleteReqs ==
    {Request("members.DELETE", "DELETE", AdminQuery, NoAuth, UuidText(MemberIdPool[1]),
             NoBody)}

NextStats ==
    \/ \E rq \in StatsReqs : members_GET(1, rq)
    \/ members_GET_stats(1)
    \/ \E rq \in StatsPostReqs : members_POST(2, rq)
    \/ members_POST_insert(2)
    \/ \E rq \in StatsPutReqs : members_PUT(2, rq)
    \/ members_PUT_update(2)
    \/ \E rq \in StatsDeleteReqs : members_DELETE(2, rq)
    \/ members_DELETE_delete(2)
    \/ \E s \in Slots : Reply(s)

SpecStats == InitConc /\ [][NextStats]_vars

(***************************************************************************)
(* C29: the counts of GET /api/members/stats are consistent with one       *)
(* another: activeSubscriptions + expiredSubscriptions <= totalMembers,    *)
(* also when members are created, updated and deleted between the count    *)
(* queries (stated for the requests whose four count queries were all      *)
(* answered).                                                              *)
(***************************************************************************)
C29_StatsConsistent ==
    \A s \in Slots :
        (/\ Served(s)
         /\ inflight[s].req.ep = "members.GET"
         /\ inflight[s].req.id = SegStats
         /\ inflight[s].resp.status = 200
         /\ ~Answered(inflight[s].trace, "members", "ERR"))
        => LET d == inflight[s].resp.body.data
           IN  d.activeSubscriptions.n + d.expiredSubscriptions.n <= d.totalMembers.n

(***************************************************************************)
(* C24: a create request that lacks required fields is answered 400        *)
(* 'Missing required fields' with a missing list of exactly the required   *)
(* fields absent from the body, in declared order, and inserts nothing; a  *)
(* field the body gives is never reported as missing.  (A field given as   *)
(* null or as the empty text is counted as absent here.)                   *)
(***************************************************************************)
RequiredOf(ep) ==
    CASE ep = "members.POST" -> MemberRequired
      [] ep = "plans.POST" -> PlanRequired
      [] ep = "tx.POST" -> TxRequired

IsAbsent(body, f) == f \notin DOMAIN body \/ body[f] \in {Null, Str(<<>>)}

AbsentFields(required, body) == SelectSeq(required, LAMBDA f : IsAbsent(body, f))

C24_MissingFieldsExact ==
    \A s \in Slots :
        (/\ Served(s)
         /\ inflight[s].req.ep \in {"members.POST", "plans.POST", "tx.POST"}
         /\ validateApiKey(inflight[s].req)
         /\ inflight[s].req.body # BadJson)
        => LET rq == inflight[s].req
               resp == inflight[s].resp
               absent == AbsentFields(RequiredOf(rq.ep), rq.body)
           IN  /\ absent # <<>>
                  => /\ resp = missingResponse(absent)
                     /\ ~Called(inflight[s].trace)
               /\ (resp.status = 400 /\ "missing" \in DOMAIN resp.body)
                  => \A i \in DOMAIN resp.body.missing :
                         IsAbsent(rq.body, resp.body.missing[i])

PlanConcPlanReqs ==
    {Request("plans.POST", "POST", AdminQuery, NoAuth, <<>>,
             PlanBody(Str(PlanGold), Num(10), Num(30)))}

PlanConcDeleteReqs ==
    {Request("plan.DELETE", "DELETE", AdminQuery, NoAuth, UuidText(PlanIdPool[1]), NoBody)}

PlanConcPostReqs ==
    {Request("members.POST", "POST", AdminQuery, NoAuth, SegMembers,
             MemberBody(Str(NameAl), Str(PhoneIntl), Str(EmailA), plan)) :
        plan \in {Undefined, Str(UuidText(PlanIdPool[1]))}}

PlanConcPutReqs ==
    {Request("members.PUT", "PUT", AdminQuery, NoAuth, UuidText(MemberIdPool[1]),
             Json([subscription_plan_id |-> plan])) :
        plan \in {Null, Str(UuidText(PlanIdPool[1]))}}

NextPlanConc ==
    \/ \E rq \in PlanConcPlanReqs : plans_POST(1, rq)
    \/ plans_POST_insert(1)
    \/ \E rq \in PlanConcDeleteReqs : plan_DELETE(1, rq)
    \/ plan_DELETE_check(1)
    \/ plan_DELETE_delete(1)
    \/ \E rq \in PlanConcPostReqs : members_POST(2, rq)
    \/ members_POST_insert(2)
    \/ \E rq \in PlanConcPutReqs : members_PUT(2, rq)
    \/ members_PUT_update(2)
    \/ \E s \in Slots : Reply(s)

SpecPlanConc == InitConc /\ [][NextPlanConc]_vars

(***************************************************************************)
(* C26: however an admin DELETE of a plan interleaves with member POSTs    *)
(* and PUTs that give members that plan, no member ever references a plan  *)
(* that is gone, and a delete that the store refuses because a member      *)
(* references the plan is answered 409.                                    *)
(***************************************************************************)
C26_DeleteInUseConflict ==
    /\ \A i \in DOMAIN members :
           members[i].subscription_plan_id # NoId
           => \E j \in DOMAIN pricing_plans :
                  pricing_plans[j].id = members[i].subscription_plan_id
    /\ \A s \in Slots :
           (/\ Served(s)
            /\ inflight[s].req.ep = "plan.DELETE"
            /\ \/ Answered(inflight[s].trace, "pricing_plans", "23503")
               \/ /\ Answered(inflight[s].trace, "members", "ok")
                  /\ ~Queried(inflight[s].trace, "pricing_plans"))
           => inflight[s].resp.status = 409

(***************************************************************************)
(* Updates keep the id.                                                    *)
(***************************************************************************)

\* the update step of each PUT handler and the table it writes
PutTable(pc) ==
    CASE pc = "members.PUT.update" -> "members"
      [] pc = "plan.PUT.update" -> "pricing_plans"
      [] pc = "txid.PUT.update" -> "transactions"

PutSteps == {"members.PUT.update", "plan.PUT.update", "txid.PUT.update"}

\* a table as the step leaves it
TableAfter(tbl) ==
    CASE tbl = "members" -> members'
      [] tbl = "pricing_plans" -> pricing_plans'
      [] tbl = "transactions" -> transactions'

\* the step in which slot s has a PUT answered 200
PutSucceeds(s) ==
    /\ inflight[s].pc \in PutSteps
    /\ inflight'[s].pc = "done"
    /\ inflight'[s].resp.status = 200

\* C27: a successful PUT hands the store a payload without id and with
\* updated_at set to the time of the request; the record it returns carries
\* the id of the path; in the addressed record the id and every column the
\* body does not name keep their values; no other record and no other table
\* changes.
C27_UpdateKeepsId ==
    [][\A s \in Slots :
          PutSucceeds(s) =>
            LET tbl == PutTable(inflight[s].pc)
                rq == inflight[s].req
                id == ParseUuid(rq.id)
                payload == inflight[s].loc
                old == Table(tbl)
                new == TableAfter(tbl)
            IN  /\ "id" \notin DOMAIN payload
                /\ payload["updated_at"] = Now
                /\ \A f \in DOMAIN rq.body \ {"id", "updated_at"} :
                       payload[f] = rq.body[f]
                /\ inflight'[s].resp.body.data.id = id
                /\ DOMAIN new = DOMAIN old
                /\ \A i \in DOMAIN old :
                       IF old[i].id = id
                       THEN /\ new[i] = inflight'[s].resp.body.data
                            /\ \A c \in Cols(tbl) \ (DOMAIN rq.body \ {"id"}) :
                                   new[i][c] = old[i][c]
                       ELSE new[i] = old[i]
                /\ \A t \in Tables \ {tbl} : TableAfter(t) = Table(t)]_vars

\* a member PUT whose body names the id of the other member is answered 200
\* with the record of the path, and both members are still there
C27_Witness ==
    \E s \in Slots :
        /\ Served(s)
        /\ inflight[s].req.ep = "members.PUT"
        /\ inflight[s].resp.status = 200
        /\ "id" \in DOMAIN inflight[s].req.body
        /\ inflight[s].req.body["id"] # Str(inflight[s].req.id)
        /\ inflight[s].resp.body.data.id = ParseUuid(inflight[s].req.id)
        /\ Len(members) = 2

(***************************************************************************)
(* A request answered with a client error writes nothing.                  *)
(***************************************************************************)

ClientErrors == {400, 401, 403, 404, 405, 409}

WriteOps == {"insert", "update", "delete"}

\* the store accepted a write of the request
Wrote(tr) ==
    \E i \in DOMAIN tr : tr[i].k = "store" /\ tr[i].op \in WriteOps /\ tr[i].code = "ok"

\* the store refused a write of the request
WriteRefused(tr) ==
    \E i \in DOMAIN tr : tr[i].k = "store" /\ tr[i].op \in WriteOps /\ tr[i].code # "ok"

\* C28: the tables change only in a step in which the store accepts a write
\* of some request, and a request answered 400, 401, 403, 404, 405 or 409 had
\* no write accepted, neither in the step that answers it nor before: the
\* three tables are as they were when the request arrived.
C28_ClientErrorWritesNothing ==
    [][/\ store' # store =>
             \E s \in Slots :
                 /\ Len(inflight'[s].trace) > Len(inflight[s].trace)
                 /\ Wrote(<<inflight'[s].trace[Len(inflight'[s].trace)]>>)
       /\ \A s \in Slots :
             (/\ inflight[s].pc # "done"
              /\ inflight'[s].pc = "done"
              /\ inflight'[s].resp.status \in ClientErrors)
             => /\ store' = store
                /\ ~Wrote(inflight'[s].trace)]_vars

\* a request whose write the store refused is answered with a client error
\* while the tables hold records
C28_Witness ==
    \E s \in Slots :
        /\ Served(s)
        /\ inflight[s].resp.status \in ClientErrors
        /\ WriteRefused(inflight[s].trace)
        /\ store # <<<<>>, <<>>, <<>>>>

====
